---- MODULE Spec2Model ----
(***************************************************************************)
(* The weekly insights engine of Bloom (weekly-summary.tsx): the week      *)
(* aggregator analyzeWeekLogs, the trend classifier computeWeeklyTrends,   *)
(* the symptom analyzer analyzeSymptomSeverity with getSymptomWeight and   *)
(* isRedFlagSymptom, and the suggestion generator getSupportSuggestions.   *)
(*                                                                         *)
(* Conventions                                                             *)
(*  - a JavaScript string that the code inspects (symptom text) is a       *)
(*    sequence of one-character strings; enum-like strings (mood, energy,  *)
(*    slot, appMode, trend directions) are TLA+ strings;                   *)
(*  - undefined / null / a missing field is the value Absent;              *)
(*  - a suggestion priority is stored in half units (priority * 2), since  *)
(*    the code uses 0.5, 1.5 and 4.5;                                      *)
(*  - NaN stands for a value that is not a number.                         *)
(***************************************************************************)
EXTENDS Integers, Sequences, FiniteSets, TLC

\* ------------------------------------------------------------------ bounds

\* Most check-ins in one week's list.
MaxLogs == 3
\* Most entries of a symptom list handed to analyzeSymptomSeverity.
MaxSymptoms == 2
\* Largest occurrence count of one symptom in such a list.
MaxCount == 3
\* Largest absolute week-over-week delta of one mood or energy counter.
MaxDelta == 1
\* Most entries of each symptom delta list (increased, decreased, new, gone).
MaxDeltaSymptoms == 2

\* ----------------------------------------------------------- JavaScript values

Absent == "undefined"

\* The result of arithmetic on a value that is not a number.  Every number the
\* engine computes from counts and weights is >= 0, so -1 is free to stand for it.
NaN == -1

isNaN(x) == x = NaN

\* JavaScript *, + and the comparisons, on numbers that may be NaN.
Times(a, b) == IF isNaN(a) \/ isNaN(b) THEN NaN ELSE a * b
Plus(a, b) == IF isNaN(a) \/ isNaN(b) THEN NaN ELSE a + b
LessEq(a, b) == ~isNaN(a) /\ ~isNaN(b) /\ a <= b
Less(a, b) == ~isNaN(a) /\ ~isNaN(b) /\ a < b
Greater(a, b) == ~isNaN(a) /\ ~isNaN(b) /\ a > b

\* ------------------------------------------------------------------ strings

UpperCase == <<"A","B","C","D","E","F","G","H","I","J","K","L","M",
               "N","O","P","Q","R","S","T","U","V","W","X","Y","Z">>
LowerCase == <<"a","b","c","d","e","f","g","h","i","j","k","l","m",
               "n","o","p","q","r","s","t","u","v","w","x","y","z">>

lowerOf == [c \in {UpperCase[i] : i \in 1..Len(UpperCase)} |->
              LowerCase[CHOOSE i \in 1..Len(UpperCase) : UpperCase[i] = c]]
upperOf == [c \in {LowerCase[i] : i \in 1..Len(LowerCase)} |->
              UpperCase[CHOOSE i \in 1..Len(LowerCase) : LowerCase[i] = c]]

toLowerCaseChar(c) == IF c \in DOMAIN lowerOf THEN lowerOf[c] ELSE c
toUpperCaseChar(c) == IF c \in DOMAIN upperOf THEN upperOf[c] ELSE c

\* String.prototype.toLowerCase
toLowerCase(s) == [i \in 1..Len(s) |-> toLowerCaseChar(s[i])]

IsWhiteSpace(c) == c = " "

\* String.prototype.trim
RECURSIVE trimStart(_)
trimStart(s) == IF s # <<>> /\ IsWhiteSpace(Head(s)) THEN trimStart(Tail(s)) ELSE s
RECURSIVE trimEnd(_)
trimEnd(s) ==
  IF s # <<>> /\ IsWhiteSpace(s[Len(s)]) THEN trimEnd(SubSeq(s, 1, Len(s) - 1)) ELSE s
trim(s) == trimEnd(trimStart(s))

\* String.prototype.includes
includes(s, k) ==
  \E i \in 0..(Len(s) - Len(k)) : \A j \in 1..Len(k) : s[i + j] = k[j]

\* String.prototype.split(","): the fragments between the commas.
RECURSIVE split(_)
split(s) ==
  IF \E i \in 1..Len(s) : s[i] = ","
    THEN LET i == CHOOSE i \in 1..Len(s) : s[i] = "," /\ \A j \in 1..(i - 1) : s[j] # ","
         IN  <<SubSeq(s, 1, i - 1)>> \o split(SubSeq(s, i + 1, Len(s)))
    ELSE <<s>>

\* symptom.charAt(0).toUpperCase() + symptom.slice(1)
capitalize(s) == IF s = <<>> THEN s ELSE <<toUpperCaseChar(Head(s))>> \o Tail(s)

\* ------------------------------------------------------------------ arrays

\* The sort that puts the later of two tied elements first.
tiesReversedSort(arr, compared) ==
  LET rank == [i \in 1..Len(arr) |->
                 1 + Cardinality({j \in 1..Len(arr) :
                                    \/ compared[j][i] < 0
                                    \/ (compared[i][j] >= 0 /\ compared[j][i] >= 0 /\ j > i)})]
  IN  [r \in 1..Len(arr) |-> arr[CHOOSE i \in 1..Len(arr) : rank[i] = r]]

\* A stable sort.  compared[i][j] is what the comparator returns on (arr[i],
\* arr[j]), or its sign.  The element at index i lands after every element the
\* comparator puts before it and after every earlier element it does not put
\* after it.
stableSort(arr, compared) ==
  LET rank == [i \in 1..Len(arr) |->
                 1 + Cardinality({j \in 1..Len(arr) :
                                    \/ compared[j][i] < 0
                                    \/ (compared[i][j] >= 0 /\ j < i)})]
  IN  [r \in 1..Len(arr) |-> arr[CHOOSE i \in 1..Len(arr) : rank[i] = r]]

\* Array.prototype.slice(0, n)
sliceTo(arr, n) == SubSeq(arr, 1, IF Len(arr) < n THEN Len(arr) ELSE n)

RECURSIVE sum(_)
sum(arr) == IF arr = <<>> THEN 0 ELSE Plus(Head(arr), sum(Tail(arr)))


\* The sign of a - b, 0 when the difference is NaN (as Array.prototype.sort reads a
\* comparator's result).
signOfDifference(a, b) == IF Less(a, b) THEN -1 ELSE IF Greater(a, b) THEN 1 ELSE 0

\* A comparator (a, b) => key(a) - key(b), or its reverse, is consistent on the keys
\* unless one of them is NaN, which it ties with everything, while two others differ.
isConsistent(keys) ==
  \/ \A i \in 1..Len(keys) : ~isNaN(keys[i])
  \/ \A i, j \in 1..Len(keys) : (~isNaN(keys[i]) /\ ~isNaN(keys[j])) => keys[i] = keys[j]

\* arr.sort(compareFn), the comparator being the difference of the elements' keys
\* (keys[i] is the key of arr[i]; compared[i][j] is the sign of compareFn(arr[i],
\* arr[j])).  On a consistent comparator the sort is stable; otherwise ECMAScript
\* leaves the order implementation-defined, and any permutation of the array may
\* come out.  The operator is the set of arrays the call can leave.
sort(arr, keys, compared) ==
  IF isConsistent(keys)
    THEN {stableSort(arr, compared)}
    ELSE {[i \in 1..Len(arr) |-> arr[p[i]]] : p \in Permutations(1..Len(arr))}

\* -------------------------------------------------- symptom severity table

\* SYMPTOM_WEIGHTS, in declaration order (the order Object.entries walks it).
SYMPTOM_WEIGHTS ==
  <<
    [key |-> <<"c","r","a","v","i","n","g","s">>, weight |-> 1],
    [key |-> <<"f","o","o","d"," ","c","r","a","v","i","n","g","s">>, weight |-> 1],
    [key |-> <<"b","l","o","a","t","i","n","g">>, weight |-> 1],
    [key |-> <<"g","a","s">>, weight |-> 1],
    [key |-> <<"m","i","l","d"," ","h","e","a","d","a","c","h","e">>, weight |-> 1],
    [key |-> <<"m","o","o","d"," ","s","w","i","n","g","s">>, weight |-> 1],
    [key |-> <<"f","r","e","q","u","e","n","t"," ","u","r","i","n","a","t","i","o","n">>, weight |-> 1],
    [key |-> <<"c","o","n","s","t","i","p","a","t","i","o","n">>, weight |-> 1],
    [key |-> <<"a","c","n","e">>, weight |-> 1],
    [key |-> <<"d","r","y"," ","s","k","i","n">>, weight |-> 1],
    [key |-> <<"r","u","n","n","y"," ","n","o","s","e">>, weight |-> 1],
    [key |-> <<"c","o","n","g","e","s","t","i","o","n">>, weight |-> 1],
    [key |-> <<"l","o","w"," ","e","n","e","r","g","y">>, weight |-> 1],
    [key |-> <<"n","a","u","s","e","a">>, weight |-> 2],
    [key |-> <<"m","o","r","n","i","n","g"," ","s","i","c","k","n","e","s","s">>, weight |-> 2],
    [key |-> <<"h","e","a","r","t","b","u","r","n">>, weight |-> 2],
    [key |-> <<"a","c","i","d"," ","r","e","f","l","u","x">>, weight |-> 2],
    [key |-> <<"i","n","s","o","m","n","i","a">>, weight |-> 2],
    [key |-> <<"s","l","e","e","p"," ","i","s","s","u","e","s">>, weight |-> 2],
    [key |-> <<"s","l","e","e","p"," ","d","e","p","r","i","v","a","t","i","o","n">>, weight |-> 2],
    [key |-> <<"b","a","c","k"," ","p","a","i","n">>, weight |-> 2],
    [key |-> <<"b","a","c","k","a","c","h","e">>, weight |-> 2],
    [key |-> <<"h","e","a","d","a","c","h","e">>, weight |-> 2],
    [key |-> <<"h","e","a","d","a","c","h","e","s">>, weight |-> 2],
    [key |-> <<"f","a","t","i","g","u","e">>, weight |-> 2],
    [key |-> <<"t","i","r","e","d">>, weight |-> 2],
    [key |-> <<"e","x","h","a","u","s","t","i","o","n">>, weight |-> 2],
    [key |-> <<"a","n","x","i","e","t","y">>, weight |-> 2],
    [key |-> <<"h","i","p"," ","p","a","i","n">>, weight |-> 2],
    [key |-> <<"l","e","g"," ","c","r","a","m","p","s">>, weight |-> 2],
    [key |-> <<"r","o","u","n","d"," ","l","i","g","a","m","e","n","t"," ","p","a","i","n">>, weight |-> 2],
    [key |-> <<"b","r","e","a","s","t"," ","t","e","n","d","e","r","n","e","s","s">>, weight |-> 2],
    [key |-> <<"b","r","e","a","s","t"," ","p","a","i","n">>, weight |-> 2],
    [key |-> <<"s","h","o","r","t","n","e","s","s"," ","o","f"," ","b","r","e","a","t","h">>, weight |-> 2],
    [key |-> <<"c","r","a","m","p","i","n","g">>, weight |-> 2],
    [key |-> <<"c","r","a","m","p","s">>, weight |-> 3],
    [key |-> <<"s","e","v","e","r","e"," ","f","a","t","i","g","u","e">>, weight |-> 3],
    [key |-> <<"s","w","e","l","l","i","n","g">>, weight |-> 3],
    [key |-> <<"e","d","e","m","a">>, weight |-> 3],
    [key |-> <<"s","e","v","e","r","e"," ","n","a","u","s","e","a">>, weight |-> 3],
    [key |-> <<"v","o","m","i","t","i","n","g">>, weight |-> 3],
    [key |-> <<"d","i","z","z","i","n","e","s","s">>, weight |-> 3],
    [key |-> <<"f","a","i","n","t","i","n","g">>, weight |-> 3],
    [key |-> <<"p","e","l","v","i","c"," ","p","r","e","s","s","u","r","e">>, weight |-> 3],
    [key |-> <<"c","o","n","t","r","a","c","t","i","o","n","s">>, weight |-> 3],
    [key |-> <<"b","r","a","x","t","o","n"," ","h","i","c","k","s">>, weight |-> 3],
    [key |-> <<"s","c","i","a","t","i","c","a">>, weight |-> 3],
    [key |-> <<"m","i","g","r","a","i","n","e","s">>, weight |-> 3]
  >>

RED_FLAG_SYMPTOMS ==
  <<
    <<"b","l","e","e","d","i","n","g">>,
    <<"s","p","o","t","t","i","n","g">>,
    <<"v","a","g","i","n","a","l"," ","b","l","e","e","d","i","n","g">>,
    <<"v","i","s","i","o","n"," ","c","h","a","n","g","e","s">>,
    <<"b","l","u","r","r","e","d"," ","v","i","s","i","o","n">>,
    <<"s","e","v","e","r","e"," ","h","e","a","d","a","c","h","e">>,
    <<"s","e","v","e","r","e"," ","a","b","d","o","m","i","n","a","l"," ","p","a","i","n">>,
    <<"c","h","e","s","t"," ","p","a","i","n">>,
    <<"d","i","f","f","i","c","u","l","t","y"," ","b","r","e","a","t","h","i","n","g">>,
    <<"d","e","c","r","e","a","s","e","d"," ","f","e","t","a","l"," ","m","o","v","e","m","e","n","t">>,
    <<"n","o"," ","f","e","t","a","l"," ","m","o","v","e","m","e","n","t">>,
    <<"f","l","u","i","d"," ","l","e","a","k","i","n","g">>,
    <<"w","a","t","e","r"," ","b","r","e","a","k","i","n","g">>,
    <<"h","i","g","h"," ","f","e","v","e","r">>,
    <<"s","e","v","e","r","e"," ","s","w","e","l","l","i","n","g">>
  >>

\* The names of the members every object inherits from Object.prototype that a
\* trimmed, lower-cased text can equal.  SYMPTOM_WEIGHTS is an object literal, so
\* SYMPTOM_WEIGHTS[name] is that member for such a name: an object or a function,
\* which is truthy and whose numeric value is NaN.
OBJECT_PROTOTYPE_MEMBERS ==
  { <<"c","o","n","s","t","r","u","c","t","o","r">>,
    <<"_","_","p","r","o","t","o","_","_">> }

\* The shortest table key that may match by containment.
MinWeightKeyLength == 4
\* The shortest red-flag term that may match.
MinRedFlagLength == 5

\* The lookup that takes the highest weight among the contained keys instead of
\* the first contained key.
getHighestContainedWeight(symptom) ==
  LET lower == trim(toLowerCase(symptom))
      IsOwn(i) == SYMPTOM_WEIGHTS[i].key = lower
      IsContained(i) == /\ Len(SYMPTOM_WEIGHTS[i].key) >= MinWeightKeyLength
                        /\ includes(lower, SYMPTOM_WEIGHTS[i].key)
  IN  IF \E i \in 1..Len(SYMPTOM_WEIGHTS) : IsOwn(i)
        THEN SYMPTOM_WEIGHTS[CHOOSE i \in 1..Len(SYMPTOM_WEIGHTS) : IsOwn(i)].weight
      ELSE IF lower \in OBJECT_PROTOTYPE_MEMBERS THEN NaN
      ELSE IF \E i \in 1..Len(SYMPTOM_WEIGHTS) : IsContained(i)
        THEN SYMPTOM_WEIGHTS[CHOOSE i \in 1..Len(SYMPTOM_WEIGHTS) :
                               /\ IsContained(i)
                               /\ \A j \in 1..Len(SYMPTOM_WEIGHTS) :
                                    IsContained(j) =>
                                      SYMPTOM_WEIGHTS[j].weight <= SYMPTOM_WEIGHTS[i].weight].weight
      ELSE 1

\* getSymptomWeight: the direct match SYMPTOM_WEIGHTS[lower], then the first table
\* key, in declaration order, of length >= 4 that the text contains, then 1.
getSymptomWeight(symptom) ==
  LET lower == trim(toLowerCase(symptom))
      IsOwn(i) == SYMPTOM_WEIGHTS[i].key = lower
      IsContained(i) == /\ Len(SYMPTOM_WEIGHTS[i].key) >= MinWeightKeyLength
                        /\ includes(lower, SYMPTOM_WEIGHTS[i].key)
  IN  IF \E i \in 1..Len(SYMPTOM_WEIGHTS) : IsOwn(i)
        THEN SYMPTOM_WEIGHTS[CHOOSE i \in 1..Len(SYMPTOM_WEIGHTS) : IsOwn(i)].weight
      ELSE IF lower \in OBJECT_PROTOTYPE_MEMBERS THEN NaN
      ELSE IF \E i \in 1..Len(SYMPTOM_WEIGHTS) : IsContained(i)
        THEN SYMPTOM_WEIGHTS[CHOOSE i \in 1..Len(SYMPTOM_WEIGHTS) :
                               IsContained(i) /\ \A j \in 1..(i - 1) : ~IsContained(j)].weight
      ELSE 1

\* The test with the minimum term length one above the length of "bleeding".
isRedFlagLongTerm(symptom) ==
  LET lower == trim(toLowerCase(symptom))
  IN  \E i \in 1..Len(RED_FLAG_SYMPTOMS) :
        /\ Len(RED_FLAG_SYMPTOMS[i]) >= 9
        /\ includes(lower, RED_FLAG_SYMPTOMS[i])

\* RED_FLAG_SYMPTOMS.some(rf => rf.length >= 5 && lower.includes(rf))
isRedFlagSymptom(symptom) ==
  LET lower == trim(toLowerCase(symptom))
  IN  \E i \in 1..Len(RED_FLAG_SYMPTOMS) :
        /\ Len(RED_FLAG_SYMPTOMS[i]) >= MinRedFlagLength
        /\ includes(lower, RED_FLAG_SYMPTOMS[i])

\* The thresholds of severityLevel.
LightMaxScore == 5
ModerateMaxScore == 12

\* The tiers with "light" and "heavy" exchanged.
severityInverted(totalScore) ==
  IF LessEq(totalScore, LightMaxScore) THEN "heavy"
  ELSE IF LessEq(totalScore, ModerateMaxScore) THEN "moderate"
  ELSE "light"

\* totalScore <= 5 ? "light" : totalScore <= 12 ? "moderate" : "heavy"
severityOf(totalScore) ==
  IF LessEq(totalScore, LightMaxScore) THEN "light"
  ELSE IF LessEq(totalScore, ModerateMaxScore) THEN "moderate"
  ELSE "heavy"

\* One entry of weightedSymptoms.
weighted(entry) ==
  LET weight == getSymptomWeight(entry.symptom)
  IN  [symptom |-> entry.symptom, count |-> entry.count, weight |-> weight,
       score |-> Times(weight, entry.count)]

\* weightedSymptoms.sort((a, b) => b.score - a.score)
byScoreDescending(a, b) == signOfDifference(b.score, a.score)

\* analyzeSymptomSeverity(topSymptoms): the set of results the call can return (one
\* result, unless the sort's comparator is inconsistent on the scores).
\* averageWeight is totalScore / totalCount, a fraction: it is kept as the pair.
analyzeSymptomSeverity(topSymptoms) ==
  LET unsorted == [i \in 1..Len(topSymptoms) |-> weighted(topSymptoms[i])]
      IsRedFlagEntry(e) == isRedFlagSymptom(e.symptom)
      redFlagEntries == SelectSeq(topSymptoms, IsRedFlagEntry)
      redFlagSymptoms == [i \in 1..Len(redFlagEntries) |-> redFlagEntries[i].symptom]
      totalScore == sum([i \in 1..Len(unsorted) |-> unsorted[i].score])
      totalCount == sum([i \in 1..Len(unsorted) |-> unsorted[i].count])
  IN  { [weightedSymptoms |-> weightedSymptoms,
         totalScore |-> totalScore,
         averageWeight |-> IF totalCount > 0 THEN <<totalScore, totalCount>> ELSE <<0, 1>>,
         hasRedFlags |-> Len(redFlagSymptoms) > 0,
         redFlagSymptoms |-> redFlagSymptoms,
         severityLevel |-> severityOf(totalScore)]
        : weightedSymptoms \in
            sort(unsorted, [i \in 1..Len(unsorted) |-> unsorted[i].score],
                 [i \in 1..Len(unsorted) |->
                    [j \in 1..Len(unsorted) |-> byScoreDescending(unsorted[i], unsorted[j])]]) }

\* ------------------------------------------------------------ week aggregator

Moods == <<"happy", "neutral", "sad">>
Energies == <<"high", "medium", "low">>
Slots == <<"morning", "evening", "night">>

\* JavaScript truthiness of an enum-like field: undefined, null and "" are falsy.
truthy(v) == v # Absent /\ v # ""

\* counts.hasOwnProperty(v), for a counter object whose own keys are `keys`.
hasOwnProperty(keys, v) == \E i \in 1..Len(keys) : keys[i] = v

\* The increment without the hasOwnProperty test: a value that is no key of the
\* counter is counted under the counter's first key.
incrementAnyValue(counts, keys, v) ==
  IF truthy(v)
    THEN [counts EXCEPT ![IF hasOwnProperty(keys, v) THEN v ELSE keys[1]] = @ + 1]
    ELSE counts

\* if (v && counts.hasOwnProperty(v)) counts[v]++
increment(counts, keys, v) ==
  IF truthy(v) /\ hasOwnProperty(keys, v) THEN [counts EXCEPT ![v] = @ + 1] ELSE counts

\* The counter loop leaving after its first iteration.
countFirstOnly(counts, keys, values) ==
  IF values = <<>> THEN counts ELSE increment(counts, keys, Head(values))

\* The counter object after the loop has seen `values`, one per log.
RECURSIVE countField(_, _, _)
countField(counts, keys, values) ==
  IF values = <<>> THEN counts
  ELSE countField(increment(counts, keys, Head(values)), keys, Tail(values))

zeroCounts(keys) == [k \in {keys[i] : i \in 1..Len(keys)} |-> 0]

\* The fragments of one log's symptom text: split on commas, trimmed, lower-cased,
\* the empty ones dropped.  A missing field and "" are both falsy: <<>> is either.
fragmentsOf(symptoms) ==
  IF symptoms = <<>> THEN <<>>
  ELSE LET parts == split(symptoms)
           normalized == [i \in 1..Len(parts) |-> toLowerCase(trim(parts[i]))]
           NonEmpty(f) == f # <<>>
       IN  SelectSeq(normalized, NonEmpty)

\* All fragments of the week, in the order the loop meets them.
RECURSIVE allFragments(_)
allFragments(logs) ==
  IF logs = <<>> THEN <<>>
  ELSE fragmentsOf(Head(logs).symptoms) \o allFragments(Tail(logs))

\* symptomCounts[symptom] = (symptomCounts[symptom] || 0) + 1 on the object built so
\* far, kept as the list of its own entries in insertion order (what Object.entries
\* returns for these keys).  symptomCounts is an object literal: for a name that
\* Object.prototype defines, the first read finds the inherited member, and member + 1
\* is a string whose numeric value is NaN; "__proto__" is an accessor that ignores
\* the string, so it never becomes an entry.
addSymptom(entries, symptom) ==
  LET own == {i \in 1..Len(entries) : entries[i].symptom = symptom}
      proto == <<"_","_","p","r","o","t","o","_","_">>
  IN  IF own # {}
        THEN LET i == CHOOSE i \in own : TRUE
             IN  [entries EXCEPT ![i].count = Plus(@, 1)]
      ELSE IF symptom = proto THEN entries
      ELSE IF symptom \in OBJECT_PROTOTYPE_MEMBERS
        THEN Append(entries, [symptom |-> symptom, count |-> NaN])
      ELSE Append(entries, [symptom |-> symptom, count |-> 1])

RECURSIVE countSymptoms(_, _)
countSymptoms(entries, fragments) ==
  IF fragments = <<>> THEN entries
  ELSE countSymptoms(addSymptom(entries, Head(fragments)), Tail(fragments))

\* The comparator with its operands exchanged: a[1] - b[1].
byCountAscending(a, b) == signOfDifference(a.count, b.count)

\* .sort((a, b) => b[1] - a[1]) on [key, count] entries.
byCountDescending(a, b) == signOfDifference(b.count, a.count)

\* The dominant key without .filter(count > 0).
dominantUnfiltered(keys, counts) ==
  LET entries == [i \in 1..Len(keys) |-> [key |-> keys[i], count |-> counts[keys[i]]]]
      sorted == stableSort(entries,
                           [i \in 1..Len(entries) |->
                              [j \in 1..Len(entries) |->
                                 byCountDescending(entries[i], entries[j])]])
  IN  IF sorted = <<>> THEN Absent ELSE sorted[1].key

\* Object.entries(counts).filter(count > 0).sort(b[1] - a[1])[0]?.[0] || null
dominant(keys, counts) ==
  LET entries == [i \in 1..Len(keys) |-> [key |-> keys[i], count |-> counts[keys[i]]]]
      Positive(e) == e.count > 0
      filtered == SelectSeq(entries, Positive)
      sorted == stableSort(filtered,
                           [i \in 1..Len(filtered) |->
                              [j \in 1..Len(filtered) |->
                                 byCountDescending(filtered[i], filtered[j])]])
  IN  IF sorted = <<>> THEN Absent ELSE sorted[1].key

\* The slot without the time_of_day fallback.
slotFieldOnly(log) == log.slot

\* log.slot || log.time_of_day
slotOf(log) == IF truthy(log.slot) THEN log.slot ELSE log.time_of_day

\* challengingSlot: the slots with a count, sorted by their number of sad logs.
challengingSlotOf(logs, slotCounts) ==
  LET sadAt(slot) == Cardinality({i \in 1..Len(logs) :
                                    slotOf(logs[i]) = slot /\ logs[i].mood = "sad"})
      entries == [i \in 1..Len(Slots) |-> [key |-> Slots[i], count |-> slotCounts[Slots[i]]]]
      Positive(e) == e.count > 0
      filtered == SelectSeq(entries, Positive)
      sorted == stableSort(filtered,
                           [i \in 1..Len(filtered) |->
                              [j \in 1..Len(filtered) |->
                                 sadAt(filtered[j].key) - sadAt(filtered[i].key)]])
  IN  IF sorted = <<>> THEN Absent ELSE sorted[1].key

\* .slice(0, 3).map(([symptom]) => symptom.charAt(0).toUpperCase() + symptom.slice(1))
topThree(sortedSymptoms) ==
  LET top == sliceTo(sortedSymptoms, 3)
  IN  [i \in 1..Len(top) |-> capitalize(top[i].symptom)]

\* The returned object, for each order the topSymptoms sort can leave the entries in.
weekStats(stats, sortedSymptoms) ==
  { [stats EXCEPT !.topSymptoms = topThree(sorted)] : sorted \in sortedSymptoms }

\* analyzeWeekLogs(logs): the set of results the call can return (one result,
\* unless the comparator of the topSymptoms sort is inconsistent on the counts).
analyzeWeekLogs(logs) ==
  LET moodCounts == countField(zeroCounts(Moods), Moods, [i \in 1..Len(logs) |-> logs[i].mood])
      slotCounts == countField(zeroCounts(Slots), Slots, [i \in 1..Len(logs) |-> slotOf(logs[i])])
      energyCounts == countField(zeroCounts(Energies), Energies, [i \in 1..Len(logs) |-> logs[i].energy])
      symptomCounts == countSymptoms(<<>>, allFragments(logs))
      hasEnergyData == \E i \in 1..Len(logs) :
                          truthy(logs[i].energy) /\ hasOwnProperty(Energies, logs[i].energy)
  IN  weekStats([totalCheckins |-> Len(logs),
                 moodCounts |-> moodCounts,
                 dominantMood |-> dominant(Moods, moodCounts),
                 symptomCounts |-> symptomCounts,
                 topSymptoms |-> <<>>,
                 slotCounts |-> slotCounts,
                 challengingSlot |-> challengingSlotOf(logs, slotCounts),
                 energyCounts |-> energyCounts,
                 hasEnergyData |-> hasEnergyData,
                 dominantEnergy |-> IF hasEnergyData THEN dominant(Energies, energyCounts)
                                    ELSE Absent],
                sort(symptomCounts,
                     [i \in 1..Len(symptomCounts) |-> symptomCounts[i].count],
                     [i \in 1..Len(symptomCounts) |->
                        [j \in 1..Len(symptomCounts) |->
                           byCountDescending(symptomCounts[i], symptomCounts[j])]]))

\* ------------------------------------------------------------ trend classifier

\* An optional value: undefined / null, or a value.
None == [defined |-> FALSE]
Some(v) == [defined |-> TRUE, value |-> v]

\* The classification with score >= 0 for "up".
directionNoStable(score) == IF score >= 0 THEN "up" ELSE "down"

\* score > 0 ? "up" : score < 0 ? "down" : "stable"
direction(score) == IF score > 0 THEN "up" ELSE IF score < 0 THEN "down" ELSE "stable"

\* The classifier with the mood score counted twice in the overall score.
computeMoodWeightedTrends(deltas) ==
  IF ~deltas.defined THEN None
  ELSE LET d == deltas.value
           moodScore == d.mood.happy - d.mood.sad
           energyScore == d.energy.high - d.energy.low
           symptomScore == (Len(d.symptoms.decreased) + Len(d.symptoms.gone))
                           - (Len(d.symptoms.increased) + Len(d.symptoms.new))
           overallScore == 2 * moodScore + energyScore + symptomScore
       IN  Some([mood |-> direction(moodScore),
                 energy |-> direction(energyScore),
                 symptoms |-> direction(symptomScore),
                 overallWellbeing |-> direction(overallScore)])

\* The classifier with the mood score alone as the overall score.
computeMoodLedTrends(deltas) ==
  IF ~deltas.defined THEN None
  ELSE LET d == deltas.value
           moodScore == d.mood.happy - d.mood.sad
           energyScore == d.energy.high - d.energy.low
           symptomScore == (Len(d.symptoms.decreased) + Len(d.symptoms.gone))
                           - (Len(d.symptoms.increased) + Len(d.symptoms.new))
       IN  Some([mood |-> direction(moodScore),
                 energy |-> direction(energyScore),
                 symptoms |-> direction(symptomScore),
                 overallWellbeing |-> direction(moodScore)])

\* computeWeeklyTrends(deltas): null for no deltas, else the four directions.
computeWeeklyTrends(deltas) ==
  IF ~deltas.defined THEN None
  ELSE LET d == deltas.value
           moodScore == d.mood.happy - d.mood.sad
           energyScore == d.energy.high - d.energy.low
           symptomsWorsened == Len(d.symptoms.increased) + Len(d.symptoms.new)
           symptomsImproved == Len(d.symptoms.decreased) + Len(d.symptoms.gone)
           symptomScore == symptomsImproved - symptomsWorsened
           overallScore == moodScore + energyScore + symptomScore
       IN  Some([mood |-> direction(moodScore),
                 energy |-> direction(energyScore),
                 symptoms |-> direction(symptomScore),
                 overallWellbeing |-> direction(overallScore)])

\* -------------------------------------------------------- suggestion generator

\* SUGGESTION_POOLS: the number of variants of each pool.
SUGGESTION_POOLS ==
  [lowEnergy |-> 3, sadMood |-> 3, nausea |-> 3, fatigue |-> 3, headache |-> 2,
   backPain |-> 2, insomnia |-> 2, lowConsistency |-> 2, trendWorsening |-> 2,
   heavySymptomWeek |-> 3, redFlag |-> 2, trimester1 |-> 2, trimester2 |-> 2,
   trimester3 |-> 2, postpartumEarly |-> 3, postpartumMid |-> 2,
   postpartumGeneral |-> 3, postpartumLowMood |-> 2, appointment |-> 2,
   general |-> 2]

\* The pick that ignores the day: always the pool's first variant.
pickFirstOfPool(pool, dayOfWeek) == [pool |-> pool, index |-> 0]

\* pickFromPool(pool) on a given day of the week: the variant pool[dayOfWeek %
\* pool.length], named by its pool and its index.
pickFromPool(pool, dayOfWeek) ==
  [pool |-> pool, index |-> dayOfWeek % SUGGESTION_POOLS[pool]]

\* One suggestion.  priority is in half units: 1 is the code's 0.5.
suggestion(icon, pool, priority, dayOfWeek) ==
  [icon |-> icon, text |-> pickFromPool(pool, dayOfWeek), priority |-> priority]

\* The keyword test of each symptom category, in the order the loop tries them.
CATEGORIES == <<"nausea", "fatigue", "headache", "backPain", "insomnia">>

categoryKeywords(category) ==
  CASE category = "nausea" ->
         { <<"n","a","u","s","e","a">>,
           <<"m","o","r","n","i","n","g"," ","s","i","c","k","n","e","s","s">>,
           <<"v","o","m","i","t","i","n","g">> }
    [] category = "fatigue" ->
         { <<"f","a","t","i","g","u","e">>,
           <<"t","i","r","e","d">>,
           <<"e","x","h","a","u","s","t","i","o","n">> }
    [] category = "headache" ->
         { <<"h","e","a","d","a","c","h","e">> }
    [] category = "backPain" ->
         { <<"b","a","c","k"," ","p","a","i","n">>,
           <<"b","a","c","k","a","c","h","e">>,
           <<"c","r","a","m","p","s">>,
           <<"a","c","h","e","s">>,
           <<"s","c","i","a","t","i","c","a">> }
    [] category = "insomnia" ->
         { <<"i","n","s","o","m","n","i","a">>,
           <<"s","l","e","e","p">>,
           <<"r","e","s","t","l","e","s","s">> }

categoryIcon(category) ==
  CASE category = "nausea" -> "Utensils"
    [] category = "backPain" -> "Bath"
    [] OTHER -> "Moon"

matchesCategory(symptomLower, category) ==
  \E keyword \in categoryKeywords(category) : includes(symptomLower, keyword)

\* const dynamicPriority = 4 + (3 - ws.weight) * 0.5, in half units.
dynamicPriority(weight) == IF isNaN(weight) THEN NaN ELSE 8 + (3 - weight)

\* The loop body's test without !processedCategories.has(category).
tryCategoryUnprocessed(acc, category, symptomLower, priority, dayOfWeek) ==
  IF matchesCategory(symptomLower, category)
    THEN [suggestions |-> Append(acc.suggestions,
                                 suggestion(categoryIcon(category), category, priority,
                                            dayOfWeek)),
          processedCategories |-> acc.processedCategories \cup {category}]
    ELSE acc

\* One test of the loop body: the category's suggestion is pushed unless the
\* category is processed already or the text holds none of its keywords.
\* acc holds the suggestions pushed so far and the processed categories.
tryCategory(acc, category, symptomLower, priority, dayOfWeek) ==
  IF category \notin acc.processedCategories /\ matchesCategory(symptomLower, category)
    THEN [suggestions |-> Append(acc.suggestions,
                                 suggestion(categoryIcon(category), category, priority,
                                            dayOfWeek)),
          processedCategories |-> acc.processedCategories \cup {category}]
    ELSE acc

\* The loop body for one weighted symptom: the five tests, in order.
symptomCategories(acc, ws, dayOfWeek) ==
  LET symptomLower == toLowerCase(ws.symptom)
      priority == dynamicPriority(ws.weight)
      a1 == tryCategory(acc, CATEGORIES[1], symptomLower, priority, dayOfWeek)
      a2 == tryCategory(a1, CATEGORIES[2], symptomLower, priority, dayOfWeek)
      a3 == tryCategory(a2, CATEGORIES[3], symptomLower, priority, dayOfWeek)
      a4 == tryCategory(a3, CATEGORIES[4], symptomLower, priority, dayOfWeek)
  IN  tryCategory(a4, CATEGORIES[5], symptomLower, priority, dayOfWeek)

\* for (const ws of symptomAnalysis.weightedSymptoms) { ... }
RECURSIVE symptomSuggestions(_, _, _)
symptomSuggestions(acc, weightedSymptoms, dayOfWeek) ==
  IF weightedSymptoms = <<>> THEN acc
  ELSE symptomSuggestions(symptomCategories(acc, Head(weightedSymptoms), dayOfWeek),
                          Tail(weightedSymptoms), dayOfWeek)

\* The rule that fires on any movement of both counts, towards better too.
trendChanging(deltas) ==
  /\ deltas.defined
  /\ \/ (deltas.value.mood.sad # 0 /\ deltas.value.mood.happy # 0)
     \/ (deltas.value.energy.low # 0 /\ deltas.value.energy.high # 0)

\* Rule 3 of the generator: the deltas show mood or energy worsening.
trendWorsening(deltas) ==
  /\ deltas.defined
  /\ \/ (deltas.value.mood.sad > 0 /\ deltas.value.mood.happy < 0)
     \/ (deltas.value.energy.low > 0 /\ deltas.value.energy.high < 0)

\* The pool of the priority-8 fallback.
fallbackPool(isPostpartum, trimester, postpartumWeek) ==
  IF isPostpartum
    THEN LET week == IF postpartumWeek.defined THEN postpartumWeek.value ELSE 0
         IN  IF week # 0 /\ week <= 6 THEN "postpartumEarly"
             ELSE IF week # 0 /\ week <= 12 THEN "postpartumMid"
             ELSE "postpartumGeneral"
    ELSE CASE trimester = 1 -> "trimester1"
           [] trimester = 2 -> "trimester2"
           [] trimester = 3 -> "trimester3"

\* The push that leaves out the generic suggestion.
pushUnlessGeneric(condition, suggestions, s) ==
  IF condition /\ s.priority # 18 THEN Append(suggestions, s) ELSE suggestions

\* The push that adds the priority-8 fallback whatever the length of the list.
pushFallbackAlways(condition, suggestions, s) ==
  IF condition \/ s.priority = 16 THEN Append(suggestions, s) ELSE suggestions

\* push, when the rule's condition holds
pushIf(condition, suggestions, s) == IF condition THEN Append(suggestions, s) ELSE suggestions

\* The comparator with its operands exchanged: b.priority - a.priority.
byPriorityDescending(a, b) == signOfDifference(b.priority, a.priority)

\* .sort((a, b) => a.priority - b.priority)
byPriorityAscending(a, b) == signOfDifference(a.priority, b.priority)

\* The suggestions pushed by the rules, in the order pushed, for one result of the
\* symptom analysis.
firedSuggestions(ctx, symptomAnalysis, dayOfWeek) ==
  LET stats == ctx.stats
      isPostpartum == ctx.appMode = "infancy"
      s0 == pushIf(symptomAnalysis.hasRedFlags, <<>>,
                   suggestion("Heart", "redFlag", 0, dayOfWeek))
      s1 == pushIf(isPostpartum /\ stats.dominantMood = "sad" /\ stats.moodCounts.sad >= 3, s0,
                   suggestion("Heart", "postpartumLowMood", 1, dayOfWeek))
      s2 == pushIf(trendWorsening(ctx.deltas), s1,
                   suggestion("Heart", "trendWorsening", 2, dayOfWeek))
      s3 == pushIf(symptomAnalysis.severityLevel = "heavy", s2,
                   suggestion("Heart", "heavySymptomWeek", 3, dayOfWeek))
      s4 == pushIf(stats.dominantMood = "sad", s3,
                   suggestion("MessageCircle", "sadMood", 4, dayOfWeek))
      s5 == pushIf(stats.dominantEnergy = "low", s4,
                   suggestion("Coffee", "lowEnergy", 6, dayOfWeek))
      s6 == symptomSuggestions([suggestions |-> s5, processedCategories |-> {}],
                               symptomAnalysis.weightedSymptoms, dayOfWeek).suggestions
      s7 == pushIf(/\ ctx.daysLogged.defined
                   /\ ctx.daysLogged.value <= 2
                   /\ stats.totalCheckins > 0, s6,
                   suggestion("Heart", "lowConsistency", 12, dayOfWeek))
      s8 == pushIf(ctx.hasUpcomingAppointment, s7,
                   suggestion("Calendar", "appointment", 14, dayOfWeek))
      s9 == pushIf(Len(s8) < 2, s8,
                   suggestion("Heart",
                              fallbackPool(isPostpartum, ctx.trimester, ctx.postpartumWeek),
                              16, dayOfWeek))
  IN  pushIf(Len(s9) < 2, s9, suggestion("Sparkles", "general", 18, dayOfWeek))

\* The symptom list without the stats.topSymptoms branch.
analyzedRawSymptomsOnly(ctx) ==
  IF ctx.rawSymptoms.defined THEN ctx.rawSymptoms.value ELSE <<>>

\* The symptom list the generator analyzes: rawSymptoms when given, else
\* stats.topSymptoms with every count 1.
analyzedSymptoms(ctx) ==
  IF ctx.rawSymptoms.defined
    THEN ctx.rawSymptoms.value
    ELSE [i \in 1..Len(ctx.stats.topSymptoms) |->
            [symptom |-> ctx.stats.topSymptoms[i], count |-> 1]]

\* getSupportSuggestions(ctx) on a given day of the week: the set of lists the call
\* can return (one list, unless a sort met an inconsistent comparator).
getSupportSuggestions(ctx, dayOfWeek) ==
  UNION { LET fired == firedSuggestions(ctx, symptomAnalysis, dayOfWeek)
          IN  { sliceTo(sorted, 3)
                : sorted \in
                    sort(fired, [i \in 1..Len(fired) |-> fired[i].priority],
                         [i \in 1..Len(fired) |->
                            [j \in 1..Len(fired) |->
                               byPriorityAscending(fired[i], fired[j])]]) }
          : symptomAnalysis \in analyzeSymptomSeverity(analyzedSymptoms(ctx)) }


\* ------------------------------------------- the RevenueCat webhook handler

\* Deno.env.get("REVENUECAT_WEBHOOK_SECRET")
REVENUECAT_WEBHOOK_SECRET == "whsec"

\* Events that grant premium
PREMIUM_GRANT_EVENTS ==
  <<"INITIAL_PURCHASE", "RENEWAL", "UNCANCELLATION", "NON_RENEWING_PURCHASE",
    "SUBSCRIPTION_EXTENDED", "PRODUCT_CHANGE">>

\* Events that revoke premium
PREMIUM_REVOKE_EVENTS == <<"CANCELLATION", "EXPIRATION", "BILLING_ISSUE">>

\* Array.prototype.includes
arrayIncludes(arr, v) == \E i \in 1..Len(arr) : arr[i] = v

\* String.prototype.startsWith
startsWith(s, prefix) ==
  Len(s) >= Len(prefix) /\ \A i \in 1..Len(prefix) : s[i] = prefix[i]

AnonymousPrefix == <<"$","R","C","A","n","o","n","y","m","o","u","s","I","D">>

\* The users that have a row in both tables.
Users == { <<"u","1">>, <<"u","2">> }

\* An identifier RevenueCat gives a customer who has not logged in.
AnonymousId == AnonymousPrefix \o <<":","a","1">>

\* The header check that accepts any header.
verifyAnyAuthorization(authHeader) == TRUE

\* verifyAuthorization: the header is present, the secret is set, and the header
\* is exactly "Bearer <secret>".
verifyAuthorization(authHeader) ==
  IF ~authHeader.defined \/ authHeader.value = "" \/ REVENUECAT_WEBHOOK_SECRET = ""
  THEN FALSE
  ELSE authHeader.value = "Bearer " \o REVENUECAT_WEBHOOK_SECRET

\* arr?.[0]
optionalFirst(arr) == IF arr.defined /\ Len(arr.value) > 0 THEN Some(arr.value[1]) ELSE None

\* !appUserId
isMissing(appUserId) == ~appUserId.defined \/ appUserId.value = <<>>

\* supabase.from(table).update({ is_premium }).eq("user_id", userId): the rows
\* of the table afterwards; a failed update and one that matches no row leave
\* them as they were.
update(rows, userId, is_premium, error) ==
  IF error THEN rows
  ELSE [u \in DOMAIN rows |-> IF u = userId THEN is_premium ELSE rows[u]]

\* The TRANSFER branch of the handler: revoke from transferred_from[0] if there
\* is one, then grant to transferred_to[0] if there is one; the errors of the
\* two updates are not looked at.
transfer(rows, event, errors) ==
  LET transferredFrom == optionalFirst(event.transferred_from)
      transferredTo == optionalFirst(event.transferred_to)
      revoked == IF transferredFrom.defined
                 THEN update(rows, transferredFrom.value, FALSE, 1 \in errors)
                 ELSE rows
  IN  IF transferredTo.defined
      THEN update(revoked, transferredTo.value, TRUE, 2 \in errors)
      ELSE revoked

\* The classification that takes a revoke event for a grant.
isPremiumOfAnyListed(eventType) ==
  IF arrayIncludes(PREMIUM_GRANT_EVENTS, eventType) THEN Some(TRUE)
  ELSE IF arrayIncludes(PREMIUM_REVOKE_EVENTS, eventType) THEN Some(TRUE)
  ELSE None

\* let isPremium: boolean | null, as the event type decides it.
isPremiumOf(eventType) ==
  IF arrayIncludes(PREMIUM_GRANT_EVENTS, eventType) THEN Some(TRUE)
  ELSE IF arrayIncludes(PREMIUM_REVOKE_EVENTS, eventType) THEN Some(FALSE)
  ELSE None

answer(status, rows) == [status |-> status, rows |-> rows]

\* The handler given to serve: the status it answers and the rows of
\* pregnancy_profiles afterwards.  `errors` holds the positions of the updates
\* of this request that the database fails.
serve(req, rows, errors) ==
  IF req.method # "POST" THEN answer(405, rows)
  ELSE IF ~verifyAuthorization(req.authorization) THEN answer(401, rows)
  ELSE IF req.body.json = "invalid" THEN answer(400, rows)
  \* JSON null: event.event throws, and the server answers the exception
  ELSE IF req.body.json = "null" THEN answer(500, rows)
  ELSE
    LET event == req.body.event
        eventType == event.type
        appUserId == event.app_user_id
    IN  IF isMissing(appUserId) THEN answer(400, rows)
        ELSE IF startsWith(appUserId.value, AnonymousPrefix) THEN answer(200, rows)
        ELSE IF isPremiumOf(eventType).defined
        THEN IF 1 \in errors
             THEN answer(500, rows)
             ELSE answer(200, update(rows, appUserId.value, isPremiumOf(eventType).value, FALSE))
        ELSE IF eventType = "TRANSFER" THEN answer(200, transfer(rows, event, errors))
        ELSE answer(200, rows)

\* The history of a user no processed event has touched.
NoHistory == [last |-> "none", transferred |-> "no"]

\* ------------------------------------------------------------------- state

VARIABLES
  logs,          \* the week's check-ins, the argument of analyzeWeekLogs
  stats,         \* what analyzeWeekLogs returned for them
  deltas,        \* the argument of computeWeeklyTrends
  trends,        \* what computeWeeklyTrends returned for it
  symptomList,   \* the topSymptoms argument of analyzeSymptomSeverity
  analysis,      \* what the last call of analyzeSymptomSeverity returned
  previous,      \* totalScore and severityLevel of the call before a count was raised
  ctx,           \* the SuggestionContext handed to getSupportSuggestions
  dayOfWeek,     \* new Date().getDay() at that call
  suggestions,   \* what getSupportSuggestions returned
  pregnancy_profiles, \* is_premium of each row of the table the webhook updates
  profiles,      \* is_premium of each row of the table the client upserts
  isPremium,     \* the isPremium state of PremiumProvider
  provider,      \* the rest of PremiumProvider: what its hooks return and its state
  request,       \* the last request the webhook answered
  response,      \* the status of its answer
  lastEvent,     \* per user, the grant and revoke history of the processed events
  writer         \* who wrote an is_premium value last

weekVars == <<logs, stats>>
trendVars == <<deltas, trends>>
severityVars == <<symptomList, analysis, previous>>
suggestionVars == <<ctx, dayOfWeek, suggestions>>
webhookVars == <<pregnancy_profiles, request, response, lastEvent>>
clientVars == <<profiles, isPremium, provider>>
premiumVars == <<webhookVars, clientVars, writer>>
vars == <<logs, stats, deltas, trends, symptomList, analysis, previous, ctx, dayOfWeek,
          suggestions, pregnancy_profiles, profiles, isPremium, provider, request,
          response, lastEvent, writer>>

NotCalled == [called |-> FALSE]

\* Symptom texts a user can have logged.
SymptomTexts ==
  { <<"n","a","u","s","e","a">>,
    <<"C","r","a","m","p","s">>,
    <<"b","l","e","e","d","i","n","g">>,
    <<"s","e","v","e","r","e"," ","h","e","a","d","a","c","h","e">>,
    <<"m","i","l","d"," ","h","e","a","d","a","c","h","e">>,
    <<"c","o","n","s","t","r","u","c","t","o","r">> }

\* A symptom text that equals no key of the weight table and contains two of them.
ContainmentTexts ==
  { <<"v","e","r","y"," ","s","e","v","e","r","e"," ","f","a","t","i","g","u","e">> }

\* Symptom texts of a week handed to the suggestion generator.
ContextSymptoms == SymptomTexts \ { <<"b","l","e","e","d","i","n","g">> }

\* The context of a week with no data, under the default props of WeeklySummary.
EmptyContext ==
  [stats |-> [totalCheckins |-> 0,
              moodCounts |-> zeroCounts(Moods),
              dominantMood |-> Absent,
              dominantEnergy |-> Absent,
              topSymptoms |-> <<>>],
   trimester |-> 2,
   hasUpcomingAppointment |-> FALSE,
   deltas |-> None,
   daysLogged |-> None,
   rawSymptoms |-> None,
   appMode |-> "pregnancy",
   postpartumWeek |-> None]

WeekIdle == logs = <<>> /\ stats = NotCalled
TrendIdle == deltas = None /\ trends = NotCalled
SeverityIdle == symptomList = <<>> /\ analysis = NotCalled /\ previous = NotCalled
SuggestionIdle == ctx = EmptyContext /\ dayOfWeek = 0 /\ suggestions = NotCalled

PremiumIdle ==
  /\ pregnancy_profiles = [u \in Users |-> FALSE]
  /\ profiles = [u \in Users |-> None]
  /\ isPremium = FALSE
  /\ provider = [user |-> None, isPartnerView |-> FALSE, momUserId |-> None,
                 canPurchase |-> FALSE, initialized |-> FALSE, isLoading |-> TRUE]
  /\ request = None
  /\ response = None
  /\ lastEvent = [u \in Users |-> NoHistory]
  /\ writer = "none"

Init == WeekIdle /\ TrendIdle /\ SeverityIdle /\ SuggestionIdle /\ PremiumIdle

\* ------------------------------------------------- the week aggregator, called

\* Check-ins a week's list can hold: every mood, energy and slot, an unrecognized
\* and a missing value of each, the time_of_day fallback, and symptom texts with
\* several fragments, blanks, capitals, an empty fragment and no text at all.
CheckIns ==
  {
    [mood |-> "happy", energy |-> "high", slot |-> "morning", time_of_day |-> Absent,
     symptoms |-> <<" ",","," ","n","a","u","s","e","a"," ">>],
    [mood |-> "sad", energy |-> "low", slot |-> "night", time_of_day |-> Absent,
     symptoms |-> <<"N","a","u","s","e","a",","," ","h","e","a","d","a","c","h","e">>],
    [mood |-> "neutral", energy |-> Absent, slot |-> Absent, time_of_day |-> "evening",
     symptoms |-> <<>>],
    [mood |-> "excited", energy |-> "medium", slot |-> "noon", time_of_day |-> Absent,
     symptoms |-> <<"h","e","a","d","a","c","h","e",",","f","a","t","i","g","u","e">>],
    [mood |-> Absent, energy |-> "high", slot |-> "morning", time_of_day |-> "night",
     symptoms |-> <<"f","a","t","i","g","u","e">>],
    [mood |-> "sad", energy |-> "low", slot |-> Absent, time_of_day |-> Absent,
     symptoms |-> <<"c","o","n","s","t","r","u","c","t","o","r">>]
  }

\* A check-in is logged.
AddLog ==
  /\ Len(logs) < MaxLogs
  /\ \E log \in CheckIns : logs' = Append(logs, log)
  /\ stats' = NotCalled
  /\ UNCHANGED <<trendVars, severityVars, suggestionVars, premiumVars>>

\* analyzeWeekLogs(logs) is called.
AnalyzeWeek ==
  /\ stats = NotCalled
  /\ \E result \in analyzeWeekLogs(logs) :
       stats' = [called |-> TRUE, result |-> result]
  /\ UNCHANGED <<logs, trendVars, severityVars, suggestionVars, premiumVars>>

WeekNext == AddLog \/ AnalyzeWeek

SpecWeek == Init /\ [][WeekNext]_vars

\* -------------------------------------------- the trend classifier, called

\* The symptom delta lists of the RPC; computeWeeklyTrends reads only their lengths.
DeltaEntry == [symptom |-> <<"n","a","u","s","e","a">>]
DeltaLists == UNION {[1..n -> {DeltaEntry}] : n \in 0..MaxDeltaSymptoms}
DeltaRange == (0 - MaxDelta)..MaxDelta
\* The deltas of the counters that carry no signal (neutral mood, medium energy).
NoSignalRange == {0 - MaxDelta, 0, MaxDelta}

\* computeWeeklyTrends is called on the deltas of the partner insights, or on null.
ComputeTrends ==
  /\ trends = NotCalled
  /\ \/ deltas' = None
     \/ \E happy, sad, high, low \in DeltaRange, noSignal \in NoSignalRange,
           increased, decreased, new, gone \in DeltaLists :
          deltas' = Some([days_logged |-> 0,
                          mood |-> [happy |-> happy, neutral |-> noSignal, sad |-> sad],
                          energy |-> [high |-> high, medium |-> noSignal, low |-> low],
                          symptoms |-> [increased |-> increased, decreased |-> decreased,
                                        new |-> new, gone |-> gone]])
  /\ trends' = [called |-> TRUE, result |-> computeWeeklyTrends(deltas')]
  /\ UNCHANGED <<weekVars, severityVars, suggestionVars, premiumVars>>

TrendNext == ComputeTrends

SpecTrends == Init /\ [][TrendNext]_vars

\* -------------------------------------------- the symptom analyzer, called

\* The entries a symptom list can hold: each text with each count, and the text
\* with two contained keys logged once.
SymptomEntries ==
  { [symptom |-> s, count |-> c] : s \in SymptomTexts, c \in 1..MaxCount }
    \cup { [symptom |-> s, count |-> 1] : s \in ContainmentTexts }

\* The symptom list grows by one entry.
AddSymptom ==
  /\ Len(symptomList) < MaxSymptoms
  /\ \E entry \in SymptomEntries : symptomList' = Append(symptomList, entry)
  /\ analysis' = NotCalled
  /\ previous' = NotCalled
  /\ UNCHANGED <<weekVars, trendVars, suggestionVars, premiumVars>>

\* analyzeSymptomSeverity(symptomList) is called.
Analyze ==
  /\ analysis = NotCalled
  /\ \E result \in analyzeSymptomSeverity(symptomList) :
       analysis' = [called |-> TRUE, result |-> result]
  /\ UNCHANGED <<symptomList, previous, weekVars, trendVars, suggestionVars, premiumVars>>

\* One entry's count is raised and analyzeSymptomSeverity is called again.
RaiseCount ==
  /\ analysis # NotCalled
  /\ previous = NotCalled
  /\ \E i \in 1..Len(symptomList) :
       /\ symptomList[i].count < MaxCount
       /\ symptomList' = [symptomList EXCEPT ![i].count = @ + 1]
  /\ previous' = [called |-> TRUE, totalScore |-> analysis.result.totalScore,
                  severityLevel |-> analysis.result.severityLevel]
  /\ \E result \in analyzeSymptomSeverity(symptomList') :
       analysis' = [called |-> TRUE, result |-> result]
  /\ UNCHANGED <<weekVars, trendVars, suggestionVars, premiumVars>>

SeverityNext == AddSymptom \/ Analyze \/ RaiseCount

SpecSeverity == Init /\ [][SeverityNext]_vars

\* ------------------------------------------ the suggestion generator, called

\* Most settings by which a context differs from EmptyContext on day 0: each
\* listed symptom and each field set to another value counts as one.
MaxSettings == 3

\* Mood counts of a week: none, happy ahead, sad ahead with fewer than 3 sad
\* check-ins, sad ahead with 3, sad tied with happy at 3, sad behind happy at 3.
MoodCountChoices ==
  { [happy |-> 2, neutral |-> 1, sad |-> 0],
    [happy |-> 0, neutral |-> 1, sad |-> 2],
    [happy |-> 1, neutral |-> 0, sad |-> 3],
    [happy |-> 3, neutral |-> 0, sad |-> 3],
    [happy |-> 4, neutral |-> 0, sad |-> 3] }

\* Deltas of the partner insights: mood worsening, energy worsening, sad up with
\* happy unchanged, and an improving week.
deltasOf(happy, sad, high, low) ==
  Some([days_logged |-> 0,
        mood |-> [happy |-> happy, neutral |-> 0, sad |-> sad],
        energy |-> [high |-> high, medium |-> 0, low |-> low],
        symptoms |-> [increased |-> <<>>, decreased |-> <<>>, new |-> <<>>, gone |-> <<>>]])

DeltaChoices ==
  { deltasOf(-1, 1, 0, 0), deltasOf(0, 0, -1, 1), deltasOf(0, 1, 0, 0), deltasOf(1, -1, 1, -1) }

DaysLoggedChoices == {2, 3}
PostpartumWeekChoices == {Some(0), Some(6), Some(7), Some(12), Some(13)}
DayChoices == {5}

\* The number of settings of the context.
settings ==
  (IF ctx.stats.moodCounts # zeroCounts(Moods) THEN 1 ELSE 0)
  + (IF ctx.stats.dominantEnergy # Absent THEN 1 ELSE 0)
  + (IF ctx.rawSymptoms.defined THEN Len(ctx.rawSymptoms.value) ELSE Len(ctx.stats.topSymptoms))
  + (IF ctx.deltas.defined THEN 1 ELSE 0)
  + (IF ctx.daysLogged.defined THEN 1 ELSE 0)
  + (IF ctx.hasUpcomingAppointment THEN 1 ELSE 0)
  + (IF ctx.trimester # 2 THEN 1 ELSE 0)
  + (IF ctx.appMode # "pregnancy" THEN 1 ELSE 0)
  + (IF dayOfWeek # 0 THEN 1 ELSE 0)

CanSet == suggestions = NotCalled /\ settings < MaxSettings

\* The week has check-ins with moods: the counts, their dominant mood and total.
SetMoodCounts ==
  /\ CanSet
  /\ ctx.stats.moodCounts = zeroCounts(Moods)
  /\ \E m \in MoodCountChoices :
       ctx' = [ctx EXCEPT !.stats.moodCounts = m,
                          !.stats.dominantMood = dominant(Moods, m),
                          !.stats.totalCheckins = m.happy + m.neutral + m.sad]
  /\ UNCHANGED <<dayOfWeek, suggestions, weekVars, trendVars, severityVars, premiumVars>>

\* The week has energy data, with a dominant energy.
SetDominantEnergy ==
  /\ CanSet
  /\ ctx.stats.dominantEnergy = Absent
  /\ \E e \in {"high", "low"} : ctx' = [ctx EXCEPT !.stats.dominantEnergy = e]
  /\ UNCHANGED <<dayOfWeek, suggestions, weekVars, trendVars, severityVars, premiumVars>>

\* Partner view: one more entry of top_symptoms, which is rawSymptoms and, its
\* first three texts capitalized, stats.topSymptoms (partnerInsightsToStats).  The
\* entries come ranked: no count is above the count of the entry before it (the
\* first entry has any count, the later ones were logged once).
AddRawSymptom ==
  /\ CanSet
  /\ ctx.rawSymptoms.defined \/ ctx.stats.topSymptoms = <<>>
  /\ \E s \in ContextSymptoms, c \in {1, MaxCount} :
       /\ ctx.rawSymptoms.defined => c = 1
       /\ LET raw == Append(IF ctx.rawSymptoms.defined THEN ctx.rawSymptoms.value ELSE <<>>,
                            [symptom |-> s, count |-> c])
              top == sliceTo(raw, 3)
          IN  ctx' = [ctx EXCEPT !.rawSymptoms = Some(raw),
                                 !.stats.topSymptoms =
                                    [i \in 1..Len(top) |-> capitalize(top[i].symptom)]]
  /\ UNCHANGED <<dayOfWeek, suggestions, weekVars, trendVars, severityVars, premiumVars>>

\* Mom view: one more entry of stats.topSymptoms, a fragment as analyzeWeekLogs
\* leaves it (trimmed, lower-cased, capitalized), and no rawSymptoms.
AddTopSymptom ==
  /\ CanSet
  /\ ~ctx.rawSymptoms.defined
  /\ Len(ctx.stats.topSymptoms) < 3
  /\ \E s \in ContextSymptoms :
       ctx' = [ctx EXCEPT !.stats.topSymptoms = Append(@, capitalize(toLowerCase(trim(s))))]
  /\ UNCHANGED <<dayOfWeek, suggestions, weekVars, trendVars, severityVars, premiumVars>>

SetDeltas ==
  /\ CanSet
  /\ ~ctx.deltas.defined
  /\ \E d \in DeltaChoices : ctx' = [ctx EXCEPT !.deltas = d]
  /\ UNCHANGED <<dayOfWeek, suggestions, weekVars, trendVars, severityVars, premiumVars>>

SetDaysLogged ==
  /\ CanSet
  /\ ~ctx.daysLogged.defined
  /\ \E n \in DaysLoggedChoices : ctx' = [ctx EXCEPT !.daysLogged = Some(n)]
  /\ UNCHANGED <<dayOfWeek, suggestions, weekVars, trendVars, severityVars, premiumVars>>

SetAppointment ==
  /\ CanSet
  /\ ~ctx.hasUpcomingAppointment
  /\ ctx' = [ctx EXCEPT !.hasUpcomingAppointment = TRUE]
  /\ UNCHANGED <<dayOfWeek, suggestions, weekVars, trendVars, severityVars, premiumVars>>

SetTrimester ==
  /\ CanSet
  /\ ctx.trimester = 2
  /\ \E t \in {1, 3} : ctx' = [ctx EXCEPT !.trimester = t]
  /\ UNCHANGED <<dayOfWeek, suggestions, weekVars, trendVars, severityVars, premiumVars>>

\* Postpartum mode, with the week since birth or without one.
SetPostpartum ==
  /\ CanSet
  /\ ctx.appMode = "pregnancy"
  /\ \E w \in PostpartumWeekChoices :
       ctx' = [ctx EXCEPT !.appMode = "infancy", !.postpartumWeek = w]
  /\ UNCHANGED <<dayOfWeek, suggestions, weekVars, trendVars, severityVars, premiumVars>>

\* The call happens on another day of the week.
SetDay ==
  /\ CanSet
  /\ dayOfWeek = 0
  /\ \E d \in DayChoices : dayOfWeek' = d
  /\ UNCHANGED <<ctx, suggestions, weekVars, trendVars, severityVars, premiumVars>>

\* getSupportSuggestions(ctx) is called.
Suggest ==
  /\ suggestions = NotCalled
  /\ \E result \in getSupportSuggestions(ctx, dayOfWeek) :
       suggestions' = [called |-> TRUE, result |-> result]
  /\ UNCHANGED <<ctx, dayOfWeek, weekVars, trendVars, severityVars, premiumVars>>

SuggestionNext ==
  \/ SetMoodCounts \/ SetDominantEnergy \/ AddRawSymptom \/ AddTopSymptom \/ SetDeltas
  \/ SetDaysLogged \/ SetAppointment \/ SetTrimester \/ SetPostpartum \/ SetDay
  \/ Suggest

SpecSuggestions == Init /\ [][SuggestionNext]_vars


\* ------------------------------------------------------ the webhook's requests

\* The event types RevenueCat sends that the handler is documented to treat
\* as a grant and as a revoke.
GrantEvents ==
  {"INITIAL_PURCHASE", "RENEWAL", "UNCANCELLATION", "NON_RENEWING_PURCHASE",
   "SUBSCRIPTION_EXTENDED", "PRODUCT_CHANGE"}
RevokeEvents == {"CANCELLATION", "EXPIRATION", "BILLING_ISSUE"}

\* Event types of the requests: the documented ones, TRANSFER, one the handler
\* does not know, and a body without a type.
EventTypes == GrantEvents \cup RevokeEvents \cup {"TRANSFER", "TEST", Absent}

\* The values of transferred_from and transferred_to.
TransferLists ==
  { None, Some(<< <<"u","1">> >>), Some(<< <<"u","2">>, <<"u","1">> >>) }

eventOf(type, appUserId, from, to) ==
  [type |-> type, app_user_id |-> appUserId, transferred_from |-> from,
   transferred_to |-> to]

\* Events that name a user with a row, of every type.
UserEvents ==
  { eventOf(t, Some(u), None, None) : t \in EventTypes \ {"TRANSFER"}, u \in Users }

\* Events that name nobody, or a customer who has not logged in.
UnnamedEvents ==
  { eventOf(t, id, None, None) :
      t \in {"INITIAL_PURCHASE", "CANCELLATION", "TEST"},
      id \in {None, Some(<<>>), Some(AnonymousId)} }

TransferEvents ==
  { eventOf("TRANSFER", id, from, to) :
      id \in {None, Some(AnonymousId), Some(<<"u","1">>)},
      from \in TransferLists, to \in TransferLists }

Bodies ==
  { [json |-> "object", event |-> e] :
      e \in UserEvents \cup UnnamedEvents \cup TransferEvents }
  \cup { [json |-> j, event |-> eventOf(Absent, None, None, None)] : j \in {"invalid", "null"} }

\* Bodies of the requests sent with a wrong method or a wrong header.
SampleBodies ==
  { [json |-> "object", event |-> e] :
      e \in { eventOf("INITIAL_PURCHASE", Some(<<"u","1">>), None, None),
              eventOf("CANCELLATION", Some(<<"u","1">>), None, None),
              eventOf("TRANSFER", Some(<<"u","1">>), Some(<< <<"u","1">> >>),
                      Some(<< <<"u","2">>, <<"u","1">> >>)) } }

ExpectedHeader == Some("Bearer " \o REVENUECAT_WEBHOOK_SECRET)

Requests ==
  { [method |-> "POST", authorization |-> ExpectedHeader, body |-> b] : b \in Bodies }
  \cup { [method |-> "GET", authorization |-> ExpectedHeader, body |-> b] :
           b \in SampleBodies }
  \cup { [method |-> "POST", authorization |-> h, body |-> b] :
           h \in {None, Some(""), Some(REVENUECAT_WEBHOOK_SECRET), Some("Bearer wrong")},
           b \in SampleBodies }

\* Whether the handler takes the request as far as the database.
reachesDatabase(req) ==
  /\ req.method = "POST"
  /\ verifyAuthorization(req.authorization)
  /\ req.body.json = "object"
  /\ ~isMissing(req.body.event.app_user_id)
  /\ ~startsWith(req.body.event.app_user_id.value, AnonymousPrefix)

\* The updates the database can fail for a request: none it does not reach,
\* the one of a grant or revoke, the two of a TRANSFER.
ErrorChoices(req) ==
  IF ~reachesDatabase(req) THEN { {} }
  ELSE IF req.body.event.type = "TRANSFER" THEN SUBSET {1, 2}
  ELSE IF isPremiumOf(req.body.event.type).defined THEN { {}, {1} }
  ELSE { {} }

\* The history after the handler has answered `req`: the last documented grant
\* or revoke that named the user and was stored, and whether a TRANSFER has
\* had the user as transferred_from[0] or transferred_to[0] since: "own" if
\* every such TRANSFER named the user as app_user_id, "other" if one did not.
\* A failed update ends what is known of the user.
historyAfter(history, req, errors) ==
  IF ~reachesDatabase(req) THEN history
  ELSE
    LET event == req.body.event
        named == event.app_user_id.value
    IN  IF event.type \in GrantEvents \cup RevokeEvents
        THEN [u \in Users |->
                IF u # named THEN history[u]
                ELSE IF 1 \in errors THEN NoHistory
                ELSE [last |-> IF event.type \in GrantEvents THEN "grant" ELSE "revoke",
                      transferred |-> "no"]]
        ELSE IF event.type = "TRANSFER"
        THEN [u \in Users |->
                IF Some(u) \in {optionalFirst(event.transferred_from),
                                optionalFirst(event.transferred_to)}
                THEN [history[u] EXCEPT
                        !.transferred = IF u = named /\ @ # "other" THEN "own" ELSE "other"]
                ELSE history[u]]
        ELSE history

\* The webhook answers one request.
Serve ==
  \E req \in Requests :
    \E errors \in ErrorChoices(req) :
      LET result == serve(req, pregnancy_profiles, errors)
      IN  /\ request' = Some(req)
          /\ response' = Some(result.status)
          /\ pregnancy_profiles' = result.rows
          /\ lastEvent' = historyAfter(lastEvent, req, errors)
          /\ writer' = IF result.rows # pregnancy_profiles THEN "webhook" ELSE writer
          /\ UNCHANGED <<clientVars, weekVars, trendVars, severityVars, suggestionVars>>

WebhookNext == Serve

SpecWebhook == Init /\ [][WebhookNext]_vars



\* ------------------------------------------------------- the PremiumProvider

\* supabase.from("profiles").upsert({ id: user.id, is_premium: premium }): the
\* rows of profiles afterwards.  Nothing is written without a user, and a
\* failed upsert is only logged.
syncPremiumToSupabase(rows, user, premium, error) ==
  IF ~user.defined \/ error THEN rows
  ELSE [u \in DOMAIN rows |-> IF u = user.value THEN Some(premium) ELSE rows[u]]

\* updatePremiumStatus(info): the rows of profiles afterwards; the status is
\* synced for the mother's own view only.
updatePremiumStatus(rows, user, isPartnerView, hasPremium, error) ==
  IF user.defined /\ ~isPartnerView
  THEN syncPremiumToSupabase(rows, user, hasPremium, error)
  ELSE rows

\* The signed-in user, or nobody.
SignedIn == {None} \cup { Some(u) : u \in Users }

\* data?.is_premium of the row of profileId
selectIsPremium(rows, profileId) ==
  IF profileId.value \in DOMAIN rows /\ rows[profileId.value].defined
  THEN rows[profileId.value].value
  ELSE FALSE

Unmounted == ~provider.initialized /\ provider.isLoading /\ ~isPremium

\* useAuth and usePartnerAccess return other values, or the app starts on
\* another platform.
Render ==
  \E user \in SignedIn, isPartnerView \in BOOLEAN, canPurchase \in BOOLEAN :
    /\ canPurchase = provider.canPurchase \/ Unmounted
    /\ provider' = [provider EXCEPT !.user = user,
                                    !.isPartnerView = isPartnerView,
                                    !.momUserId = IF isPartnerView
                                                  THEN Some(<<"u","1">>) ELSE None,
                                    !.canPurchase = canPurchase]
    /\ UNCHANGED <<profiles, isPremium, writer, webhookVars, weekVars, trendVars,
                   severityVars, suggestionVars>>

\* The effect that initializes RevenueCat, or on the web reads is_premium of
\* the user's profile.
Initialize ==
  \E success \in BOOLEAN :
    /\ IF ~provider.canPurchase
       THEN /\ isPremium' = IF provider.user.defined /\ selectIsPremium(profiles, provider.user)
                            THEN TRUE ELSE isPremium
            /\ provider' = [provider EXCEPT !.isLoading = FALSE, !.initialized = TRUE]
       ELSE /\ isPremium' = isPremium
            /\ provider' = IF success
                           THEN [provider EXCEPT !.initialized = TRUE]
                           ELSE [provider EXCEPT !.isLoading = FALSE]
    /\ UNCHANGED <<profiles, writer, webhookVars, weekVars, trendVars, severityVars,
                   suggestionVars>>

\* What a call of updatePremiumStatus(info) does to the state.
Updated(hasPremium, error) ==
  LET rows == updatePremiumStatus(profiles, provider.user, provider.isPartnerView,
                                  hasPremium, error)
  IN  /\ isPremium' = hasPremium
      /\ profiles' = rows
      /\ writer' = IF rows # profiles THEN "client" ELSE writer

\* The effect that logs the user in to RevenueCat, or out of it, and hands the
\* customer info to updatePremiumStatus.
SyncUser ==
  /\ provider.initialized /\ provider.canPurchase
  /\ \E hasPremium \in BOOLEAN, error \in BOOLEAN, thrown \in BOOLEAN :
       IF thrown
       THEN UNCHANGED <<profiles, isPremium, writer>>
       ELSE Updated(hasPremium, error)
  /\ provider' = [provider EXCEPT !.isLoading = FALSE]
  /\ UNCHANGED <<webhookVars, weekVars, trendVars, severityVars, suggestionVars>>

\* The customer info listener: a renewal or a cancellation reaches the client.
CustomerInfoUpdated ==
  /\ provider.initialized /\ provider.canPurchase
  /\ \E hasPremium \in BOOLEAN, error \in BOOLEAN : Updated(hasPremium, error)
  /\ UNCHANGED <<provider, webhookVars, weekVars, trendVars, severityVars, suggestionVars>>

\* refreshEntitlement: on the web read is_premium of the own profile, or of the
\* mother's in partner view; on a native platform hand the customer info of
\* RevenueCat to updatePremiumStatus.
RefreshEntitlement ==
  /\ IF ~provider.canPurchase
     THEN LET profileId == IF provider.isPartnerView THEN provider.momUserId
                           ELSE provider.user
          IN  /\ isPremium' = IF profileId.defined
                              THEN selectIsPremium(profiles, profileId)
                              ELSE isPremium
              /\ UNCHANGED <<profiles, writer>>
     ELSE \E hasPremium \in BOOLEAN, error \in BOOLEAN, thrown \in BOOLEAN :
            IF thrown
            THEN UNCHANGED <<profiles, isPremium, writer>>
            ELSE Updated(hasPremium, error)
  /\ provider' = [provider EXCEPT !.isLoading = FALSE]
  /\ UNCHANGED <<webhookVars, weekVars, trendVars, severityVars, suggestionVars>>

ClientNext == Render \/ Initialize \/ SyncUser \/ CustomerInfoUpdated \/ RefreshEntitlement

SpecClient == Init /\ [][ClientNext]_vars

\* ------------------------------------- the weekly summary of the mom view

\* Check-ins that log a red-flag symptom: as the last of four symptoms, alone,
\* and inside a longer text.
RedFlagCheckIns ==
  {
    [mood |-> "sad", energy |-> "low", slot |-> "night", time_of_day |-> Absent,
     symptoms |-> <<"n","a","u","s","e","a",",","h","e","a","d","a","c","h","e",",",
                    "f","a","t","i","g","u","e",",","b","l","e","e","d","i","n","g">>],
    [mood |-> "neutral", energy |-> "medium", slot |-> "evening", time_of_day |-> Absent,
     symptoms |-> <<"B","l","e","e","d","i","n","g">>],
    [mood |-> "happy", energy |-> "high", slot |-> "morning", time_of_day |-> Absent,
     symptoms |-> <<"l","i","g","h","t"," ","s","p","o","t","t","i","n","g">>]
  }

\* The stats object as getSupportSuggestions reads it.
statsOf(result) ==
  [totalCheckins |-> result.totalCheckins,
   moodCounts |-> result.moodCounts,
   dominantMood |-> result.dominantMood,
   dominantEnergy |-> result.dominantEnergy,
   topSymptoms |-> result.topSymptoms]

\* A check-in is logged; the summary is to be computed again.
LogCheckIn ==
  /\ Len(logs) < MaxLogs
  /\ \E log \in CheckIns \cup RedFlagCheckIns : logs' = Append(logs, log)
  /\ stats' = NotCalled
  /\ ctx' = EmptyContext
  /\ suggestions' = NotCalled
  /\ UNCHANGED <<dayOfWeek, trendVars, severityVars, premiumVars>>

\* WeeklySummary renders in the mom view under its default props: stats is
\* analyzeWeekLogs(weekLogs), there are no partner insights (no deltas, no
\* daysLogged, no rawSymptoms), and getSupportSuggestions is called on them.
WeeklySummary ==
  /\ stats = NotCalled
  /\ \E result \in analyzeWeekLogs(logs) :
       /\ stats' = [called |-> TRUE, result |-> result]
       /\ ctx' = [EmptyContext EXCEPT !.stats = statsOf(result)]
       /\ \E list \in getSupportSuggestions(ctx', dayOfWeek) :
            suggestions' = [called |-> TRUE, result |-> list]
  /\ UNCHANGED <<logs, dayOfWeek, trendVars, severityVars, premiumVars>>

PipelineNext == LogCheckIn \/ WeeklySummary

SpecPipeline == Init /\ [][PipelineNext]_vars

\* ------------------------------------------------------------------ properties

\* C1: every call of getSupportSuggestions returns at least 1 and at most 3
\* suggestions, their priorities in non-decreasing order, and at most one
\* suggestion of each of the five symptom categories.
C1_SuggestionsBoundedSortedDeduplicated ==
  suggestions.called =>
    LET out == suggestions.result
    IN  /\ Len(out) >= 1
        /\ Len(out) <= 3
        /\ \A i \in 1..(Len(out) - 1) : LessEq(out[i].priority, out[i + 1].priority)
        /\ \A c \in 1..Len(CATEGORIES) :
             Cardinality({i \in 1..Len(out) : out[i].text.pool = CATEGORIES[c]}) <= 1

\* A call that returned 3 suggestions, one of them of a symptom category that two
\* of the analyzed symptoms belong to, in a context where more than 3 rules fired.
C1_Witness ==
  /\ suggestions.called
  /\ Len(suggestions.result) = 3
  /\ \E c \in 1..Len(CATEGORIES) :
       /\ \E i \in 1..3 : suggestions.result[i].text.pool = CATEGORIES[c]
       /\ LET list == analyzedSymptoms(ctx)
          IN  Cardinality({i \in 1..Len(list) :
                             matchesCategory(toLowerCase(list[i].symptom), CATEGORIES[c])}) >= 2
  /\ \E a \in analyzeSymptomSeverity(analyzedSymptoms(ctx)) :
       Len(firedSuggestions(ctx, a, dayOfWeek)) > 3

\* C2: when the analysis of the generator's symptom input has hasRedFlags, the
\* first suggestion returned is the red-flag suggestion and its priority is 0,
\* whatever the other fields of the context are.
C2_RedFlagFirst ==
  (/\ suggestions.called
   /\ \E a \in analyzeSymptomSeverity(analyzedSymptoms(ctx)) : a.hasRedFlags)
  => /\ suggestions.result[1].text.pool = "redFlag"
     /\ suggestions.result[1].priority = 0

\* A call with a red flag in a postpartum week whose dominant mood is sad, where
\* the priority-0.5 and priority-2 rules fire as well.
C2_Witness ==
  /\ suggestions.called
  /\ \E a \in analyzeSymptomSeverity(analyzedSymptoms(ctx)) : a.hasRedFlags
  /\ ctx.appMode = "infancy"
  /\ ctx.stats.dominantMood = "sad"
  /\ ctx.stats.moodCounts.sad >= 3
  /\ Len(suggestions.result) = 3
  /\ suggestions.result[1].text.pool = "redFlag"

\* C3: analyzeWeekLogs returns dominantMood = null exactly when the three mood
\* counts are 0; otherwise dominantMood has the maximum count and is the first
\* of the moods with that count in the order happy, neutral, sad.
C3_DominantMood ==
  stats.called =>
    LET counts == stats.result.moodCounts
        mood == stats.result.dominantMood
        AllZero == \A i \in 1..Len(Moods) : counts[Moods[i]] = 0
        IsMax(i) == \A j \in 1..Len(Moods) : counts[Moods[j]] <= counts[Moods[i]]
    IN  /\ (mood = Absent) <=> AllZero
        /\ ~AllZero =>
             \E i \in 1..Len(Moods) :
               /\ mood = Moods[i]
               /\ IsMax(i)
               /\ \A j \in 1..(i - 1) : ~IsMax(j)

\* A week where two moods share the maximum, which is not 0, and the first of
\* them in the fixed order was returned though it was not logged first.
C3_Witness ==
  /\ stats.called
  /\ stats.result.moodCounts.happy = stats.result.moodCounts.sad
  /\ stats.result.moodCounts.happy > stats.result.moodCounts.neutral
  /\ logs[1].mood = "sad"
  /\ stats.result.dominantMood = "happy"

\* C4: the three mood counts analyzeWeekLogs returns sum to the number of
\* check-ins whose mood is happy, neutral or sad, and each is a natural number.
C4_MoodCountsSum ==
  stats.called =>
    LET counts == stats.result.moodCounts
        recognized == {i \in 1..Len(logs) : \E m \in 1..Len(Moods) : logs[i].mood = Moods[m]}
    IN  /\ counts.happy + counts.neutral + counts.sad = Cardinality(recognized)
        /\ \A m \in 1..Len(Moods) : counts[Moods[m]] \in Nat

\* A week with a check-in whose mood is missing, one whose mood is no known mood
\* and one whose mood is counted.
C4_Witness ==
  /\ stats.called
  /\ \E i \in 1..Len(logs) : logs[i].mood = Absent
  /\ \E i \in 1..Len(logs) : logs[i].mood = "excited"
  /\ stats.result.moodCounts.happy + stats.result.moodCounts.neutral
       + stats.result.moodCounts.sad = 1

\* C5: after one entry's count is raised, its text unchanged, totalScore of
\* analyzeSymptomSeverity is not smaller than before and severityLevel is not
\* lower than before in the order light < moderate < heavy.
C5_RaisingCountIsMonotonic ==
  previous.called =>
    LET rank(level) == CASE level = "light" -> 1 [] level = "moderate" -> 2 [] level = "heavy" -> 3
    IN  /\ ~Less(analysis.result.totalScore, previous.totalScore)
        /\ rank(analysis.result.severityLevel) >= rank(previous.severityLevel)

\* A raise that took the list from light to moderate.
C5_Witness ==
  /\ previous.called
  /\ previous.severityLevel = "light"
  /\ analysis.result.severityLevel = "moderate"
  /\ Greater(analysis.result.totalScore, previous.totalScore)

\* C6: totalScore is the sum of weight x count over the symptoms of the list, and
\* severityLevel is light exactly when totalScore <= 5, moderate exactly when
\* 6 <= totalScore <= 12, heavy exactly when totalScore > 12.
C6_ScoreAndSeverity ==
  analysis.called =>
    LET r == analysis.result
        weights == [i \in 1..Len(symptomList) |-> getSymptomWeight(symptomList[i].symptom)]
    IN  /\ r.totalScore = sum([i \in 1..Len(symptomList) |->
                                 Times(weights[i], symptomList[i].count)])
        /\ (r.severityLevel = "light") <=> LessEq(r.totalScore, LightMaxScore)
        /\ (r.severityLevel = "moderate") <=>
             (Greater(r.totalScore, LightMaxScore) /\ LessEq(r.totalScore, ModerateMaxScore))
        /\ (r.severityLevel = "heavy") <=> Greater(r.totalScore, ModerateMaxScore)

\* C7: for deltas that are not null, mood, energy and symptoms are up, down or
\* stable by the sign of happy - sad, of high - low and of (decreased + gone) -
\* (increased + new); the neutral and medium deltas change no direction.
C7_DirectionsBySign ==
  (trends.called /\ deltas.defined) =>
    LET d == deltas.value
        t == trends.result.value
        Sign(x) == IF x > 0 THEN "up" ELSE IF x < 0 THEN "down" ELSE "stable"
        With(n, m) ==
          computeWeeklyTrends(Some([d EXCEPT !.mood.neutral = n, !.energy.medium = m]))
    IN  /\ t.mood = Sign(d.mood.happy - d.mood.sad)
        /\ t.energy = Sign(d.energy.high - d.energy.low)
        /\ t.symptoms = Sign((Len(d.symptoms.decreased) + Len(d.symptoms.gone))
                             - (Len(d.symptoms.increased) + Len(d.symptoms.new)))
        /\ \A n, m \in NoSignalRange : With(n, m) = trends.result

\* Deltas with neutral and medium not 0 where mood is up, energy is down and the
\* symptoms, with a new and a gone one, are stable.
C7_Witness ==
  /\ trends.called
  /\ deltas.defined
  /\ deltas.value.mood.neutral # 0
  /\ deltas.value.energy.medium # 0
  /\ Len(deltas.value.symptoms.new) = 1
  /\ Len(deltas.value.symptoms.gone) = 1
  /\ trends.result.value.mood = "up"
  /\ trends.result.value.energy = "down"
  /\ trends.result.value.symptoms = "stable"

C9_EmptyWeek ==
  (stats.called /\ logs = <<>>) =>
    LET r == stats.result
    IN  /\ r.totalCheckins = 0
        /\ \A i \in 1..Len(Moods) : r.moodCounts[Moods[i]] = 0
        /\ \A i \in 1..Len(Energies) : r.energyCounts[Energies[i]] = 0
        /\ \A i \in 1..Len(Slots) : r.slotCounts[Slots[i]] = 0
        /\ r.dominantMood = Absent
        /\ r.dominantEnergy = Absent
        /\ r.topSymptoms = <<>>

\* analyzeWeekLogs was called on the empty list and returned.
C9_Witness ==
  /\ logs = <<>>
  /\ stats.called
  /\ stats.result.totalCheckins = 0

\* C10, as claimed: for every permutation of the check-ins analyzeWeekLogs
\* returns the same totalCheckins, moodCounts, energyCounts, slotCounts,
\* dominantMood, dominantEnergy and topSymptoms.
C10_OrderIndependent ==
  stats.called =>
    \A p \in Permutations(1..Len(logs)) :
      \A r \in analyzeWeekLogs([i \in 1..Len(logs) |-> logs[p[i]]]) :
        /\ r.totalCheckins = stats.result.totalCheckins
        /\ r.moodCounts = stats.result.moodCounts
        /\ r.energyCounts = stats.result.energyCounts
        /\ r.slotCounts = stats.result.slotCounts
        /\ r.dominantMood = stats.result.dominantMood
        /\ r.dominantEnergy = stats.result.dominantEnergy
        /\ r.topSymptoms = stats.result.topSymptoms

\* C10, amended: for every permutation of the check-ins analyzeWeekLogs returns
\* the same totalCheckins, moodCounts, energyCounts, slotCounts, dominantMood,
\* dominantEnergy and the same count of every symptom; topSymptoms is the same
\* too when the comparator b[1] - a[1] is not 0 for any two symptoms, that is
\* when their counts are numbers that differ.
C10_OrderIndependentUpToTies ==
  stats.called =>
    LET counted == stats.result.symptomCounts
        NoTies == /\ \A i \in 1..Len(counted) : ~isNaN(counted[i].count)
                  /\ \A i, j \in 1..Len(counted) :
                       i # j => counted[i].count # counted[j].count
    IN  \A p \in Permutations(1..Len(logs)) :
          \A r \in analyzeWeekLogs([i \in 1..Len(logs) |-> logs[p[i]]]) :
            /\ r.totalCheckins = stats.result.totalCheckins
            /\ r.moodCounts = stats.result.moodCounts
            /\ r.energyCounts = stats.result.energyCounts
            /\ r.slotCounts = stats.result.slotCounts
            /\ r.dominantMood = stats.result.dominantMood
            /\ r.dominantEnergy = stats.result.dominantEnergy
            /\ {r.symptomCounts[i] : i \in 1..Len(r.symptomCounts)}
                 = {counted[i] : i \in 1..Len(counted)}
            /\ NoTies => r.topSymptoms = stats.result.topSymptoms

\* A week of check-ins that differ, with two symptoms of different counts, the
\* rarer one logged first.
C10_Witness ==
  /\ stats.called
  /\ Len(logs) >= 2
  /\ logs[1] # logs[2]
  /\ Len(stats.result.symptomCounts) = 2
  /\ stats.result.symptomCounts[1].count = 1
  /\ stats.result.symptomCounts[2].count = 2
  /\ stats.result.topSymptoms[1] = capitalize(stats.result.symptomCounts[2].symptom)

\* C11: topSymptoms of analyzeWeekLogs holds at most 3 symptoms, in non-increasing
\* order of the number of times each occurs in the week; no symptom left out
\* occurs more often than a listed one; symptoms that occur equally often are in
\* the order of their first occurrence; each name is a trimmed, lower-cased,
\* non-empty comma fragment with its first letter upper-cased.
C11_TopSymptoms ==
  stats.called =>
    LET fragments == allFragments(logs)
        symptoms == {fragments[i] : i \in 1..Len(fragments)}
        occurrences(s) == Cardinality({i \in 1..Len(fragments) : fragments[i] = s})
        first(s) == CHOOSE i \in 1..Len(fragments) :
                      fragments[i] = s /\ \A j \in 1..(i - 1) : fragments[j] # s
        top == stats.result.topSymptoms
        Named(i, s) == s \in symptoms /\ s # <<>> /\ top[i] = capitalize(s)
        name(i) == CHOOSE s \in symptoms : Named(i, s)
    IN  /\ Len(top) <= 3
        /\ \A i \in 1..Len(top) : \E s \in symptoms : Named(i, s)
        /\ (\A i \in 1..Len(top) : \E s \in symptoms : Named(i, s)) =>
             /\ \A i, j \in 1..Len(top) :
                  i < j =>
                    /\ name(i) # name(j)
                    /\ occurrences(name(i)) >= occurrences(name(j))
                    /\ occurrences(name(i)) = occurrences(name(j))
                         => first(name(i)) < first(name(j))
             /\ \A s \in symptoms :
                  (\A i \in 1..Len(top) : name(i) # s) =>
                    \A i \in 1..Len(top) : occurrences(s) <= occurrences(name(i))

\* C12: redFlagSymptoms of analyzeSymptomSeverity holds, in input order, exactly
\* the symptoms whose lower-cased text contains a red-flag term, and hasRedFlags
\* is true exactly when redFlagSymptoms is not empty; the single symptom
\* "bleeding" with count 1 gives hasRedFlags and redFlagSymptoms = ["bleeding"].
C12_RedFlags ==
  analysis.called =>
    LET r == analysis.result
        HasTerm(e) == \E t \in 1..Len(RED_FLAG_SYMPTOMS) :
                        includes(toLowerCase(e.symptom), RED_FLAG_SYMPTOMS[t])
        flagged == SelectSeq(symptomList, HasTerm)
        bleeding == <<"b","l","e","e","d","i","n","g">>
    IN  /\ r.redFlagSymptoms = [i \in 1..Len(flagged) |-> flagged[i].symptom]
        /\ r.hasRedFlags <=> (r.redFlagSymptoms # <<>>)
        /\ symptomList = <<[symptom |-> bleeding, count |-> 1]>> =>
             (r.hasRedFlags /\ r.redFlagSymptoms = <<bleeding>>)

\* A list of two red flags, "bleeding" first, which the sort by score puts in
\* the other order.
C12_Witness ==
  /\ analysis.called
  /\ Len(symptomList) = 2
  /\ Len(analysis.result.redFlagSymptoms) = 2
  /\ analysis.result.redFlagSymptoms[1] = <<"b","l","e","e","d","i","n","g">>
  /\ analysis.result.weightedSymptoms[1].symptom = analysis.result.redFlagSymptoms[2]
  /\ analysis.result.hasRedFlags

\* C13: getSymptomWeight returns 1, 2 or 3: the weight of the table key that the
\* trimmed lower-cased text equals, whatever other key the text contains;
\* otherwise the weight of a key of length >= 4 that the text contains;
\* otherwise 1.
C13_WeightInRange ==
  analysis.called =>
    \A n \in 1..Len(analysis.result.weightedSymptoms) :
      LET ws == analysis.result.weightedSymptoms[n]
          lower == trim(toLowerCase(ws.symptom))
          keys == 1..Len(SYMPTOM_WEIGHTS)
          Equal(i) == SYMPTOM_WEIGHTS[i].key = lower
          Contained(i) == Len(SYMPTOM_WEIGHTS[i].key) >= 4
                          /\ includes(lower, SYMPTOM_WEIGHTS[i].key)
      IN  /\ ws.weight \in {1, 2, 3}
          /\ \A i \in keys : Equal(i) => ws.weight = SYMPTOM_WEIGHTS[i].weight
          /\ ((\A i \in keys : ~Equal(i)) /\ (\E i \in keys : Contained(i))) =>
               \E i \in keys : Contained(i) /\ ws.weight = SYMPTOM_WEIGHTS[i].weight
          /\ (\A i \in keys : ~Equal(i) /\ ~Contained(i)) => ws.weight = 1

\* C14: premium is server-authoritative: whoever wrote an is_premium value to
\* the database last, it was the RevenueCat webhook handler and never an action
\* of the client (of PremiumProvider in particular).
C14_ServerAuthoritative == writer \in {"none", "webhook"}

\* C15 as stated: after the webhook has processed authorised POST events that
\* name a user, every update succeeding, is_premium of the user is true if the
\* last of them with a grant or revoke type was a grant and false if it was a
\* revoke, whatever TRANSFER events naming the user came after it; an event of
\* any other type than TRANSFER leaves every is_premium as it was.
C15_LastGrantOrRevokeDecides ==
  [][ /\ \A u \in Users :
           lastEvent'[u].transferred # "other" =>
             /\ lastEvent'[u].last = "grant" => pregnancy_profiles'[u] = TRUE
             /\ lastEvent'[u].last = "revoke" => pregnancy_profiles'[u] = FALSE
      /\ (/\ request'.defined
          /\ reachesDatabase(request'.value)
          /\ request'.value.body.event.type \notin
               GrantEvents \cup RevokeEvents \cup {"TRANSFER"})
         => pregnancy_profiles' = pregnancy_profiles ]_vars

\* C15, amended: the same, provided that no TRANSFER event with the user as
\* transferred_from[0] or transferred_to[0] was processed after that last grant
\* or revoke.
C15_LastGrantOrRevokeDecidesUntilTransfer ==
  [][ /\ \A u \in Users :
           lastEvent'[u].transferred = "no" =>
             /\ lastEvent'[u].last = "grant" => pregnancy_profiles'[u] = TRUE
             /\ lastEvent'[u].last = "revoke" => pregnancy_profiles'[u] = FALSE
      /\ (/\ request'.defined
          /\ reachesDatabase(request'.value)
          /\ request'.value.body.event.type \notin
               GrantEvents \cup RevokeEvents \cup {"TRANSFER"})
         => pregnancy_profiles' = pregnancy_profiles ]_vars

\* One user whose premium a later grant gave back after a revoke had taken it,
\* another whose last such event was a revoke, and a last event of a type the
\* handler does not know.
C15_Witness ==
  /\ lastEvent[<<"u","1">>] = [last |-> "grant", transferred |-> "no"]
  /\ pregnancy_profiles[<<"u","1">>] = TRUE
  /\ lastEvent[<<"u","2">>] = [last |-> "revoke", transferred |-> "no"]
  /\ pregnancy_profiles[<<"u","2">>] = FALSE
  /\ request.defined
  /\ reachesDatabase(request.value)
  /\ request.value.body.event.type = "TEST"
  /\ response = Some(200)

\* C16: a request that is not a POST, or whose Authorization header is not
\* exactly "Bearer <secret>", or whose body is not valid JSON, or whose
\* app_user_id is missing or starts with $RCAnonymousID, changes no is_premium,
\* whatever its event type; the first three are answered 405, 401 and 400.
C16_RejectedRequestsChangeNothing ==
  [][ request'.defined =>
        LET r == request'.value
            notPost == r.method # "POST"
            badHeader == r.authorization # Some("Bearer " \o REVENUECAT_WEBHOOK_SECRET)
            badJson == r.body.json = "invalid"
            id == r.body.event.app_user_id
            anonymous == <<"$","R","C","A","n","o","n","y","m","o","u","s","I","D">>
            noUser == \/ ~id.defined
                      \/ id.value = <<>>
                      \/ /\ Len(id.value) >= Len(anonymous)
                         /\ SubSeq(id.value, 1, Len(anonymous)) = anonymous
        IN  /\ (notPost \/ badHeader \/ badJson \/ noUser) =>
                 pregnancy_profiles' = pregnancy_profiles
            /\ notPost => response' = Some(405)
            /\ (~notPost /\ badHeader) => response' = Some(401)
            /\ (~notPost /\ ~badHeader /\ badJson) => response' = Some(400) ]_vars

\* An authorised TRANSFER that names an anonymous customer and would move
\* premium from u1, who has it, to u2: it is answered 200 and both keep what
\* they had.
C16_Witness ==
  /\ request.defined
  /\ request.value.method = "POST"
  /\ request.value.authorization = ExpectedHeader
  /\ request.value.body.json = "object"
  /\ request.value.body.event.type = "TRANSFER"
  /\ request.value.body.event.app_user_id = Some(AnonymousId)
  /\ optionalFirst(request.value.body.event.transferred_from) = Some(<<"u","1">>)
  /\ optionalFirst(request.value.body.event.transferred_to) = Some(<<"u","2">>)
  /\ response = Some(200)
  /\ pregnancy_profiles[<<"u","1">>] = TRUE
  /\ pregnancy_profiles[<<"u","2">>] = FALSE
  /\ lastEvent[<<"u","1">>] = [last |-> "grant", transferred |-> "no"]

\* C17: once an authorised TRANSFER event has been answered 200, is_premium of
\* transferred_from[0] is false and is_premium of transferred_to[0] is true.
C17_TransferMovesPremium ==
  (/\ request.defined
   /\ request.value.method = "POST"
   /\ request.value.authorization = ExpectedHeader
   /\ request.value.body.json = "object"
   /\ request.value.body.event.type = "TRANSFER"
   /\ response = Some(200))
  =>
    LET old == optionalFirst(request.value.body.event.transferred_from)
        new == optionalFirst(request.value.body.event.transferred_to)
    IN  /\ (old.defined /\ old.value \in Users) => pregnancy_profiles[old.value] = FALSE
        /\ (new.defined /\ new.value \in Users) => pregnancy_profiles[new.value] = TRUE

\* C18: in postpartum mode (appMode = infancy) with a sad-mood count of 3 or
\* more, getSupportSuggestions returns the mood-check suggestion with priority
\* 0.5 (1 in half units); outside postpartum mode or with a smaller sad count
\* it returns none.
C18_PostpartumMoodCheck ==
  suggestions.called =>
    LET out == suggestions.result
        moodCheck == \E i \in 1..Len(out) :
                       out[i].text.pool = "postpartumLowMood" /\ out[i].priority = 1
    IN  moodCheck <=> (ctx.appMode = "infancy" /\ ctx.stats.moodCounts.sad >= 3)

\* C19: the output of getSupportSuggestions is the first three (or all, if
\* fewer) of the fired suggestions in ascending priority, equal priorities in
\* the order fired: a fired suggestion is at position r of the output when
\* r - 1 others have a lower priority, or an equal one and were fired earlier,
\* and it is left out only when r > 3.
C19_TopThreeOfStableSort ==
  suggestions.called =>
    \E a \in analyzeSymptomSeverity(analyzedSymptoms(ctx)) :
      LET fired == firedSuggestions(ctx, a, dayOfWeek)
          out == suggestions.result
          before(i) == {j \in 1..Len(fired) :
                          \/ fired[j].priority < fired[i].priority
                          \/ (fired[j].priority = fired[i].priority /\ j < i)}
      IN  /\ Len(out) = (IF Len(fired) < 3 THEN Len(fired) ELSE 3)
          /\ \A i \in 1..Len(fired) :
               Cardinality(before(i)) < 3 => out[Cardinality(before(i)) + 1] = fired[i]

\* A call where four rules fired, the last two with equal priorities: the one
\* fired third is the third of the output and the one fired fourth is left out.
C19_Witness ==
  /\ suggestions.called
  /\ Len(suggestions.result) = 3
  /\ \E a \in analyzeSymptomSeverity(analyzedSymptoms(ctx)) :
       LET fired == firedSuggestions(ctx, a, dayOfWeek)
       IN  /\ Len(fired) = 4
           /\ fired[3].priority = fired[4].priority
           /\ fired[2].priority < fired[3].priority
           /\ suggestions.result[3] = fired[3]
           /\ \A i \in 1..3 : suggestions.result[i] # fired[4]

\* C20: each symptom category is suggested at most once per call, and the
\* priority of its suggestion is 4 + (3 - w) * 0.5 (8 + (3 - w) in half
\* units: 8, 9 or 10), where w is the weight of the first of the symptoms that
\* match the category in descending order of weight * count, equal scores in
\* input order; so suggestions of categories come in the order of these
\* priorities.
C20_CategoryOncePriorityFromTopMatch ==
  suggestions.called =>
    LET list == analyzedSymptoms(ctx)
        out == suggestions.result
        weight(i) == getSymptomWeight(list[i].symptom)
        score(i) == weight(i) * list[i].count
        matching(c) == {i \in 1..Len(list) :
                          matchesCategory(toLowerCase(list[i].symptom), c)}
        top(c) == CHOOSE i \in matching(c) :
                    \A j \in matching(c) \ {i} :
                      score(i) > score(j) \/ (score(i) = score(j) /\ i < j)
        ofCategory(k) == \E c \in 1..Len(CATEGORIES) : out[k].text.pool = CATEGORIES[c]
    IN  /\ \A c \in 1..Len(CATEGORIES) :
             /\ Cardinality({k \in 1..Len(out) : out[k].text.pool = CATEGORIES[c]}) <= 1
             /\ \A k \in 1..Len(out) :
                  out[k].text.pool = CATEGORIES[c] =>
                    /\ matching(CATEGORIES[c]) # {}
                    /\ out[k].priority = 8 + (3 - weight(top(CATEGORIES[c])))
                    /\ out[k].priority \in {8, 9, 10}
        /\ \A k \in 1..Len(out), l \in 1..Len(out) :
             (k < l /\ ofCategory(k) /\ ofCategory(l)) => out[k].priority <= out[l].priority

\* C21: the priority-8 fallback (16 in half units) is returned only when fewer
\* than 2 of the earlier rules fired; in pregnancy mode its text is of the pool
\* of the trimester, and in postpartum mode with a week w of the early pool for
\* w <= 6, of the mid pool for 6 < w <= 12 and of the general pool for w > 12.
C21_FallbackPool ==
  suggestions.called =>
    \A k \in 1..Len(suggestions.result) :
      suggestions.result[k].priority = 16 =>
        LET pool == suggestions.result[k].text.pool
            week == ctx.postpartumWeek
        IN  /\ \E a \in analyzeSymptomSeverity(analyzedSymptoms(ctx)) :
                 Cardinality({i \in 1..Len(firedSuggestions(ctx, a, dayOfWeek)) :
                                firedSuggestions(ctx, a, dayOfWeek)[i].priority < 16}) < 2
            /\ ctx.appMode = "pregnancy" =>
                 pool = (CASE ctx.trimester = 1 -> "trimester1"
                           [] ctx.trimester = 2 -> "trimester2"
                           [] ctx.trimester = 3 -> "trimester3")
            /\ (ctx.appMode = "infancy" /\ week.defined) =>
                 pool = (IF week.value <= 6 THEN "postpartumEarly"
                         ELSE IF week.value <= 12 THEN "postpartumMid"
                         ELSE "postpartumGeneral")

\* C22 as stated: if two of the three directions mood, energy and symptoms are
\* up, overallWellbeing is not down, and if two are down, it is not up.
C22_MajorityDecides ==
  (trends.called /\ deltas.defined) =>
    LET t == trends.result.value
        count(d) == (IF t.mood = d THEN 1 ELSE 0) + (IF t.energy = d THEN 1 ELSE 0)
                    + (IF t.symptoms = d THEN 1 ELSE 0)
    IN  /\ count("up") >= 2 => t.overallWellbeing # "down"
        /\ count("down") >= 2 => t.overallWellbeing # "up"

\* C22, amended: when no direction is down and one is up, overallWellbeing is
\* up; when none is up and one is down, it is down; when the three are stable,
\* it is stable.  One category against the two others can decide it.
C22_UnanimityDecides ==
  (trends.called /\ deltas.defined) =>
    LET t == trends.result.value
        directions == {t.mood, t.energy, t.symptoms}
    IN  /\ ("down" \notin directions /\ "up" \in directions) => t.overallWellbeing = "up"
        /\ ("up" \notin directions /\ "down" \in directions) => t.overallWellbeing = "down"
        /\ directions = {"stable"} => t.overallWellbeing = "stable"

\* Mood and energy are up, and three worsened symptoms alone take
\* overallWellbeing down.
C22_Witness ==
  /\ trends.called
  /\ deltas.defined
  /\ trends.result.value.mood = "up"
  /\ trends.result.value.energy = "up"
  /\ trends.result.value.symptoms = "down"
  /\ trends.result.value.overallWellbeing = "down"

C25_TwoOrThreeSuggestions ==
  suggestions.called => Len(suggestions.result) \in {2, 3}

\* A call on the empty context returned the two fallbacks, and nothing else.
C25_Witness ==
  /\ suggestions.called
  /\ ctx = EmptyContext
  /\ Len(suggestions.result) = 2
  /\ suggestions.result[1].priority = 16
  /\ suggestions.result[2].priority = 18

\* C26: fallbacks only fill gaps: a returned priority-8 suggestion means the list
\* has exactly 2 entries; a returned priority-9 suggestion means the list is the
\* priority-8 one followed by the priority-9 one; and when at least two rules
\* other than the fallbacks fire, no suggestion of priority 8 or 9 is returned.
C26_FallbacksOnlyFillGaps ==
  suggestions.called =>
    LET result == suggestions.result
        priorities == [k \in 1..Len(result) |-> result[k].priority]
        has(p) == \E k \in 1..Len(result) : priorities[k] = p
        nonFallback(a) ==
          LET fired == firedSuggestions(ctx, a, dayOfWeek)
          IN  Cardinality({i \in 1..Len(fired) : fired[i].priority \notin {16, 18}})
    IN  /\ has(16) => Len(result) = 2
        /\ has(18) => priorities = <<16, 18>>
        /\ (has(16) \/ has(18))
             => \E a \in analyzeSymptomSeverity(analyzedSymptoms(ctx)) : nonFallback(a) < 2

\* A call for which exactly one rule fired returned that rule's suggestion and
\* the priority-8 fallback, without the generic one.
C26_Witness ==
  /\ suggestions.called
  /\ ctx.hasUpcomingAppointment
  /\ Len(suggestions.result) = 2
  /\ suggestions.result[1].priority = 14
  /\ suggestions.result[2].priority = 16

\* C27: the trend-worsening suggestion (the code's priority 1) is returned exactly
\* when the deltas are given and (mood.sad > 0 and mood.happy < 0) or
\* (energy.low > 0 and energy.high < 0); whenever it is returned,
\* computeWeeklyTrends on the same deltas classifies mood as down or energy as
\* down; with the deltas absent it is never returned.
C27_TrendWorseningAgreesWithClassifier ==
  suggestions.called =>
    LET fired == \E k \in 1..Len(suggestions.result) :
                   suggestions.result[k].text.pool = "trendWorsening"
        classified == computeWeeklyTrends(ctx.deltas)
    IN  /\ ~ctx.deltas.defined => ~fired
        /\ ctx.deltas.defined =>
             LET d == ctx.deltas.value
             IN  /\ fired <=> \/ (d.mood.sad > 0 /\ d.mood.happy < 0)
                              \/ (d.energy.low > 0 /\ d.energy.high < 0)
                 /\ fired => \/ classified.value.mood = "down"
                             \/ classified.value.energy = "down"

\* The energy deltas alone worsened: the suggestion was returned, and the
\* classifier calls energy down and mood stable.
C27_Witness ==
  /\ suggestions.called
  /\ ctx.deltas.defined
  /\ ctx.deltas.value.energy.low > 0 /\ ctx.deltas.value.energy.high < 0
  /\ ctx.deltas.value.mood.sad = 0
  /\ \E k \in 1..Len(suggestions.result) :
       suggestions.result[k].text.pool = "trendWorsening" /\ suggestions.result[k].priority = 2
  /\ computeWeeklyTrends(ctx.deltas).value.energy = "down"
  /\ computeWeeklyTrends(ctx.deltas).value.mood = "stable"

\* C28: when getSupportSuggestions is called without rawSymptoms, the analysis is
\* made of stats.topSymptoms with every count 1: totalScore is at most 9,
\* severityLevel is never heavy, and the heavy-symptom-week suggestion is not
\* returned.
C28_TopSymptomsNeverHeavy ==
  (suggestions.called /\ ~ctx.rawSymptoms.defined) =>
    /\ \A i \in 1..Len(analyzedSymptoms(ctx)) :
         /\ analyzedSymptoms(ctx)[i].symptom = ctx.stats.topSymptoms[i]
         /\ analyzedSymptoms(ctx)[i].count = 1
    /\ \A a \in analyzeSymptomSeverity(analyzedSymptoms(ctx)) :
         /\ LessEq(a.totalScore, 9)
         /\ a.severityLevel # "heavy"
    /\ \A k \in 1..Len(suggestions.result) :
         suggestions.result[k].text.pool # "heavySymptomWeek"

\* C29: a symptom that equals no table key but contains several keys of length
\* >= 4 gets the weight of the contained key that comes first in the table's
\* declaration order, not the highest weight nor the longest key: a text that
\* contains 'severe fatigue' without being equal to it is weighted 2, through
\* 'fatigue'.
C29_FirstContainedKeyDecides ==
  analysis.called =>
    \A k \in 1..Len(analysis.result.weightedSymptoms) :
      LET ws == analysis.result.weightedSymptoms[k]
          lower == trim(toLowerCase(ws.symptom))
          keyAt(i) == SYMPTOM_WEIGHTS[i].key
          equal == {i \in 1..Len(SYMPTOM_WEIGHTS) : keyAt(i) = lower}
          contained == {i \in 1..Len(SYMPTOM_WEIGHTS) :
                          /\ Len(keyAt(i)) >= 4
                          /\ Len(keyAt(i)) <= Len(lower)
                          /\ includes(lower, keyAt(i))}
          severeFatigue == <<"s","e","v","e","r","e"," ","f","a","t","i","g","u","e">>
      IN  /\ (equal = {} /\ Cardinality(contained) >= 2) =>
               \E first \in contained :
                 /\ \A i \in contained : first <= i
                 /\ ws.weight = SYMPTOM_WEIGHTS[first].weight
          /\ (includes(lower, severeFatigue) /\ lower # severeFatigue) => ws.weight = 2

\* An analyzed list with a text that contains 'fatigue' (2) and 'severe fatigue'
\* (3), the first declared before the second and shorter, and is weighted 2.
C29_Witness ==
  /\ analysis.called
  /\ \E k \in 1..Len(analysis.result.weightedSymptoms) :
       LET ws == analysis.result.weightedSymptoms[k]
       IN  /\ ws.symptom \in ContainmentTexts
           /\ ws.weight = 2
           /\ \E i, j \in 1..Len(SYMPTOM_WEIGHTS) :
                /\ i < j
                /\ SYMPTOM_WEIGHTS[i].key = <<"f","a","t","i","g","u","e">>
                /\ SYMPTOM_WEIGHTS[j].key = <<"s","e","v","e","r","e"," ","f","a","t","i","g","u","e">>
                /\ SYMPTOM_WEIGHTS[i].weight = 2 /\ SYMPTOM_WEIGHTS[j].weight = 3
                /\ includes(ws.symptom, SYMPTOM_WEIGHTS[i].key)
                /\ includes(ws.symptom, SYMPTOM_WEIGHTS[j].key)

====
